---- MODULE Spec2Model ----
(***************************************************************************)
(* Model of the CommonJS module loader for Tasker (src/src/require.ts).    *)
(*                                                                         *)
(* Strings are sequences of tokens.  The tokens "/", "." and ":" are the   *)
(* characters the code discriminates on; every other token stands for a    *)
(* fixed non-empty run of characters that holds none of the three.         *)
(* Objects live in a heap and are named by their allocation number, so     *)
(* that reference equality (===) is equality of numbers.                   *)
(***************************************************************************)
EXTENDS Integers, Sequences, FiniteSets, TLC

(***************************************************************************)
(* Bounds of the model                                                     *)
(***************************************************************************)
\* statements the module bodies execute at most, all bodies together
MaxStmts == 3
\* operations the main script performs at most
MaxTop == 2
\* module bodies nested on the call stack at most (never reached by the code)
MaxDepth == 4

(***************************************************************************)
(* String helpers (JavaScript String.prototype.split / Array.join)         *)
(***************************************************************************)
\* the value `undefined` where a string is expected
Undefined == <<"\\undefined">>

RECURSIVE SplitFrom(_, _, _, _, _)
SplitFrom(s, sep, i, cur, acc) ==
    IF i > Len(s) THEN Append(acc, cur)
    ELSE IF s[i] = sep THEN SplitFrom(s, sep, i + 1, <<>>, Append(acc, cur))
    ELSE SplitFrom(s, sep, i + 1, Append(cur, s[i]), acc)

Split(s, sep) == SplitFrom(s, sep, 1, <<>>, <<>>)

RECURSIVE Join(_, _)
Join(segs, sep) ==
    IF Len(segs) = 0 THEN <<>>
    ELSE IF Len(segs) = 1 THEN segs[1]
    ELSE segs[1] \o <<sep>> \o Join(Tail(segs), sep)

Front(s) == SubSeq(s, 1, Len(s) - 1)

Last(s) == s[Len(s)]

(***************************************************************************)
(* File path helpers                                                       *)
(***************************************************************************)
RECURSIVE LastNonEmpty(_)
LastNonEmpty(segs) ==
    IF Len(segs) = 0 THEN Undefined
    ELSE IF Last(segs) # <<>> THEN Last(segs)
    ELSE LastNonEmpty(Front(segs))

basename(filepath) == LastNonEmpty(Split(filepath, "/"))

\* while (segments.length && !segments.pop());
RECURSIVE PopUntilNonEmpty(_)
PopUntilNonEmpty(segs) ==
    IF Len(segs) = 0 THEN segs
    ELSE IF Last(segs) # <<>> THEN Front(segs)
    ELSE PopUntilNonEmpty(Front(segs))

\* segments.join('/') || ((filepath[0] == '/') ? '/' : '.')
DirnameOr(filepath, joined) ==
    IF joined # <<>> THEN joined
    ELSE IF filepath[1] = "/" THEN <<"/">> ELSE <<".">>

\* dirname that removes the last segment only, empty or not
dirname_lastonly(filepath) ==
    IF filepath = <<>> THEN <<".">>
    ELSE DirnameOr(filepath, Join(Front(Split(filepath, "/")), "/"))

dirname(filepath) ==
    IF filepath = <<>> THEN <<".">>
    ELSE DirnameOr(filepath, Join(PopUntilNonEmpty(Split(filepath, "/")), "/"))

\* index of the last "." of s, 0 when there is none
RECURSIVE LastDot(_, _)
LastDot(s, i) ==
    IF i = 0 THEN 0 ELSE IF s[i] = "." THEN i ELSE LastDot(s, i - 1)

\* base.match(/^.+(\.[^.]+)$/), d being the index of the last "." of base
MatchExt(base, d) ==
    IF base # Undefined /\ d >= 2 /\ d < Len(base)
    THEN SubSeq(base, d, Len(base))
    ELSE <<>>

ExtOfBase(base) == MatchExt(base, LastDot(base, Len(base)))

extname(filepath) == ExtOfBase(basename(filepath))

\* path.replace(/\/?$/, '/') + seg.replace(/^\//, '')
JoinStep(path, seg) ==
    (IF path # <<>> /\ Last(path) = "/" THEN path ELSE path \o <<"/">>)
        \o (IF seg[1] = "/" THEN Tail(seg) ELSE seg)

RECURSIVE JoinReduce(_, _)
JoinReduce(path, segs) ==
    IF Len(segs) = 0 THEN path
    ELSE JoinReduce(JoinStep(path, Head(segs)), Tail(segs))

joinPath(paths) ==
    JoinReduce(<<>>, SelectSeq(paths, LAMBDA p : p # <<>>))

\* for .. remove the last segment (if non-empty) unless it's also ..
NormalizePop(segments, cur) ==
    IF cur = <<".", ".">> /\ Len(segments) > 0 /\ Last(segments) # <<>>
       /\ Last(segments) # <<".", ".">>
    THEN Front(segments) ELSE segments

\* the push of `cur` onto `popped`; `segments` is the stack before the pop,
\* where the code reads `last`
NormalizePush(segments, popped, cur) ==
    IF (cur # <<>> \/ Len(segments) = 0) /\ cur # <<".">>
       /\ (cur # <<".", ".">> \/ Len(segments) = 0
               \/ Last(segments) = <<".", ".">>)
    THEN Append(popped, cur) ELSE popped

RECURSIVE NormalizeFrom(_, _, _)
NormalizeFrom(parts, i, segments) ==
    IF i > Len(parts) THEN segments
    ELSE NormalizeFrom(parts, i + 1,
            NormalizePush(segments, NormalizePop(segments, parts[i]), parts[i]))

\* if (filepath.slice(-1) == '/') segments.push('')
RetainSlash(filepath, segments) ==
    IF filepath # <<>> /\ Last(filepath) = "/"
    THEN Append(segments, <<>>) ELSE segments

normalizePath(filepath) ==
    Join(RetainSlash(filepath, NormalizeFrom(Split(filepath, "/"), 1, <<>>)), "/")

(***************************************************************************)
(* State                                                                   *)
(***************************************************************************)
VARIABLES
    globals,       \* the host's global variables JS_PATH and CommonJS
    fs,            \* the host's file system: absolute path -> entry
    paths,         \* the array require.paths
    moduleCache,   \* Map<Filepath, Module>
    resolveCache,  \* Map<string, Filepath>, keyed by <<moduleId, directory>>
    heap,          \* object number -> set of own property names
    modules,       \* Module instances, by allocation number
    stack,         \* module bodies in execution, innermost last
    ret,           \* outcome of the main script's last require call
    top,           \* operations the main script has performed
    steps,         \* statements the module bodies have executed
    log,           \* history: every value a require call has returned
    ends,          \* history: every export reconciliation that has run
    reads,         \* history: file path -> times loadFile has read it
    execs,         \* history: file path -> times its body has been started
    bindings,      \* module -> descriptor of the `paths` property of its require
    mains          \* module -> descriptor of the `main` property of its require

vars == <<globals, fs, paths, moduleCache, resolveCache, heap, modules, stack, ret, top,
          steps, log, ends, reads, execs, bindings, mains>>

\* require.main is the first Module instance
Main == 1

\* the array initJsPaths returns is the second object the script allocates
PathsArray == 2

\* Object.defineProperty(require, 'paths', { value, enumerable: true,
\* configurable: false }) with writable left out
PathsDescriptor_writable(value) ==
    [value |-> value, writable |-> TRUE, enumerable |-> TRUE,
     configurable |-> FALSE]

PathsDescriptor(value) ==
    [value |-> value, writable |-> FALSE, enumerable |-> TRUE,
     configurable |-> FALSE]

\* Object.defineProperty(require, 'main', { value, enumerable: true,
\* configurable: false }) with writable: true
MainDescriptor_writable(value) ==
    [value |-> value, writable |-> TRUE, enumerable |-> TRUE,
     configurable |-> FALSE]

MainDescriptor(value) ==
    [value |-> value, writable |-> FALSE, enumerable |-> TRUE,
     configurable |-> FALSE]

\* the elements of the array an array reference names
ArrayElements(array) == IF array = PathsArray THEN paths ELSE <<>>

\* require.paths as the resolver reads it
RequirePaths == ArrayElements(bindings[Main].value)

(***************************************************************************)
(* File system helpers                                                     *)
(***************************************************************************)
FileType == [Directory |-> "directory", RegularFile |-> "regular file",
             Unknown |-> "unknown"]

\* working directory of the shell the host runs the probe in
Cwd == <<>>

\* the absolute path of the entry reached through the directory names `names`
EntryKey(names) == <<"/">> \o Join(names, "/")

EntryType(names) ==
    IF names = <<>> THEN FileType.Directory
    ELSE IF EntryKey(names) \in DOMAIN fs THEN fs[EntryKey(names)].type
    ELSE FileType.Unknown

NoEntry == <<Undefined>>

\* path lookup as the kernel does it for `[ -d p ]`, `[ -f p ]` and a read
RECURSIVE Walk(_, _, _)
Walk(comps, i, cur) ==
    IF cur = NoEntry \/ i > Len(comps) THEN cur
    ELSE IF EntryType(cur) # FileType.Directory THEN NoEntry
    ELSE IF comps[i] = <<".", ".">>
         THEN Walk(comps, i + 1, IF cur = <<>> THEN cur ELSE Front(cur))
    ELSE Walk(comps, i + 1, Append(cur, comps[i]))

\* a path that ends in "/" names a directory only
LookupEnd(filepath, found) ==
    IF found # NoEntry /\ Last(filepath) = "/"
       /\ EntryType(found) # FileType.Directory
    THEN NoEntry ELSE found

Lookup(filepath) ==
    IF filepath = <<>> THEN NoEntry
    ELSE LookupEnd(filepath,
            Walk(SelectSeq(Split(filepath, "/"),
                           LAMBDA c : c # <<>> /\ c # <<".">>),
                 1, IF filepath[1] = "/" THEN <<>> ELSE Cwd))

FoundType(found) ==
    IF found = NoEntry THEN FileType.Unknown ELSE EntryType(found)

stat(filepath) == FoundType(Lookup(filepath))

\* the text of a file; the empty text when it cannot be read
NoText == [kind |-> "empty", main |-> Undefined]

readFile(filepath) ==
    IF stat(filepath) = FileType.RegularFile
    THEN fs[EntryKey(Lookup(filepath))].text
    ELSE NoText

\* safeParseJson that takes what the text spells without parsing it
safeParseJson_lenient(text) == text.main

\* the `main` of the parsed descriptor, Undefined when pkg?.main is falsy
safeParseJson(text) ==
    IF text.kind = "json" THEN text.main ELSE Undefined

\* the host's global variables JS_PATH and CommonJS
JS_PATH == <<"/", "m">>

CommonJS == <<"/", "m", "/", "require", ".", "js">>

(***************************************************************************)
(* Resolver                                                                *)
(***************************************************************************)
IsRelativeId(moduleId) ==
    \/ Len(moduleId) >= 2 /\ SubSeq(moduleId, 1, 2) = <<".", "/">>
    \/ Len(moduleId) >= 3 /\ SubSeq(moduleId, 1, 3) = <<".", ".", "/">>

\* resolveSearchPaths over the paths the initialisation has found
resolveSearchPaths_initial(moduleId, directory) ==
    IF moduleId # <<>> /\ moduleId[1] = "/" THEN << <<>> >>
    ELSE IF IsRelativeId(moduleId) /\ directory # <<>> /\ directory # <<".">>
         THEN <<directory>>
    ELSE IF directory # <<>> /\ directory # <<".">>
         THEN <<JS_PATH>> \o <<directory>>
    ELSE <<JS_PATH>>

\* resolveSearchPaths without the case of the relative identifier
resolveSearchPaths_norelative(moduleId, directory) ==
    IF moduleId # <<>> /\ moduleId[1] = "/" THEN << <<>> >>
    ELSE IF directory # <<>> /\ directory # <<".">>
         THEN RequirePaths \o <<directory>>
    ELSE RequirePaths

resolveSearchPaths(moduleId, directory) ==
    IF moduleId # <<>> /\ moduleId[1] = "/" THEN << <<>> >>
    ELSE IF IsRelativeId(moduleId) /\ directory # <<>> /\ directory # <<".">>
         THEN <<directory>>
    ELSE IF directory # <<>> /\ directory # <<".">>
         THEN RequirePaths \o <<directory>>
    ELSE RequirePaths

\* resolveExtension that tries '.json' before '.js'
resolveExtension_jsonfirst(filepath, checkWithNoExt) ==
    IF checkWithNoExt /\ stat(filepath) = FileType.RegularFile THEN filepath
    ELSE IF stat(filepath \o <<".", "json">>) = FileType.RegularFile
         THEN filepath \o <<".", "json">>
    ELSE IF stat(filepath \o <<".", "js">>) = FileType.RegularFile
         THEN filepath \o <<".", "js">>
    ELSE Undefined

resolveExtension(filepath, checkWithNoExt) ==
    IF checkWithNoExt /\ stat(filepath) = FileType.RegularFile THEN filepath
    ELSE IF stat(filepath \o <<".", "js">>) = FileType.RegularFile
         THEN filepath \o <<".", "js">>
    ELSE IF stat(filepath \o <<".", "json">>) = FileType.RegularFile
         THEN filepath \o <<".", "json">>
    ELSE Undefined

\* the `main` of the descriptor pkgfile, Undefined when pkg?.main is falsy
PackageMain(pkgfile) ==
    IF stat(pkgfile) = FileType.RegularFile
    THEN safeParseJson(readFile(pkgfile)) ELSE Undefined

ResolveMain(filepath, main) ==
    IF main # Undefined /\ main # <<>>
    THEN IF stat(main) = FileType.Directory
         THEN resolveExtension(joinPath(<<main, <<"index">> >>), FALSE)
         ELSE resolveExtension(normalizePath(joinPath(<<filepath, main>>)), TRUE)
    ELSE resolveExtension(joinPath(<<filepath, <<"index">> >>), FALSE)

resolvePackage(filepath) ==
    ResolveMain(filepath,
                PackageMain(joinPath(<<filepath, <<"package", ".", "json">> >>)))

\* the first of two results that is a file
OrElse(file, other) == IF file # Undefined THEN file ELSE other

\* the node_modules step taken for every identifier and every candidate
ProbeNodeModules_always(moduleId, path, modulepath) ==
    IF stat(modulepath) = FileType.Directory
    THEN resolvePackage(modulepath) ELSE Undefined

\* the node_modules step of the loop of resolveFile
ProbeNodeModules(moduleId, path, modulepath) ==
    IF ~(\E i \in 1..Len(moduleId) : moduleId[i] = "/")
       /\ basename(path) # <<"node_modules">>
       /\ stat(modulepath) = FileType.Directory
    THEN resolvePackage(modulepath) ELSE Undefined

\* the steps of one turn with extension inference ahead of the packages
ProbeSteps_extensionfirst(moduleId, path, filepath, filetype) ==
    IF filetype = FileType.RegularFile THEN filepath
    ELSE OrElse(IF filepath = <<>> \/ Last(filepath) # "/"
                THEN resolveExtension(filepath, FALSE) ELSE Undefined,
         OrElse(IF filetype = FileType.Directory
                THEN resolvePackage(filepath) ELSE Undefined,
                ProbeNodeModules(moduleId, path,
                    normalizePath(joinPath(<<path, <<"node_modules">>, moduleId>>)))))

\* the steps of one turn of the loop, filepath and filetype being known
ProbeSteps(moduleId, path, filepath, filetype) ==
    IF filetype = FileType.RegularFile THEN filepath
    ELSE OrElse(IF filetype = FileType.Directory
                THEN resolvePackage(filepath) ELSE Undefined,
         OrElse(ProbeNodeModules(moduleId, path,
                    normalizePath(joinPath(<<path, <<"node_modules">>, moduleId>>))),
                IF filepath = <<>> \/ Last(filepath) # "/"
                THEN resolveExtension(filepath, FALSE) ELSE Undefined))

\* a turn of the loop that gives up when the probe of the joined path
\* yields no output
ProbeFilepath_fatal(moduleId, path, filepath) ==
    IF stat(filepath) = FileType.Unknown THEN Undefined
    ELSE ProbeSteps(moduleId, path, filepath, stat(filepath))

ProbeFilepath(moduleId, path, filepath) ==
    ProbeSteps(moduleId, path, filepath, stat(filepath))

\* one turn of the loop of resolveFile: the file candidate `path` yields
ProbeCandidate(moduleId, path) ==
    ProbeFilepath(moduleId, path, normalizePath(joinPath(<<path, moduleId>>)))

RECURSIVE ProbeFrom(_, _, _)
ProbeFrom(moduleId, candidates, i) ==
    IF i > Len(candidates) THEN Undefined
    ELSE OrElse(ProbeCandidate(moduleId, candidates[i]),
                ProbeFrom(moduleId, candidates, i + 1))

\* the loop of resolveFile, run on a cache miss
Probe(moduleId, directory) ==
    ProbeFrom(moduleId, resolveSearchPaths(moduleId, directory), 1)

CacheKey(moduleId, directory) == <<moduleId, directory>>

\* resolveFile that searches on every call
resolveFile_uncached(moduleId, directory) == Probe(moduleId, directory)

\* the value resolveFile returns
resolveFile(moduleId, directory) ==
    IF CacheKey(moduleId, directory) \in DOMAIN resolveCache
    THEN resolveCache[CacheKey(moduleId, directory)]
    ELSE Probe(moduleId, directory)

\* a resolution cache that holds the latest entry only
CacheSet_latest(key, file) == [k \in {key} |-> file]

\* cache.set(key, file)
CacheSet(key, file) ==
    [k \in DOMAIN resolveCache \cup {key} |->
        IF k = key THEN file ELSE resolveCache[k]]

\* resolveFile that also stores the result of a failed search
resolveFileCache_negative(moduleId, directory) ==
    IF CacheKey(moduleId, directory) \in DOMAIN resolveCache
    THEN resolveCache
    ELSE CacheSet(CacheKey(moduleId, directory), Probe(moduleId, directory))

\* the resolution cache resolveFile leaves behind
resolveFileCache(moduleId, directory) ==
    IF CacheKey(moduleId, directory) \in DOMAIN resolveCache
       \/ Probe(moduleId, directory) = Undefined
    THEN resolveCache
    ELSE CacheSet(CacheKey(moduleId, directory), Probe(moduleId, directory))

(***************************************************************************)
(* Initialisation                                                          *)
(***************************************************************************)
\* Set.prototype.add
SetAdd(seq, x) ==
    IF \E i \in 1..Len(seq) : seq[i] = x THEN seq ELSE Append(seq, x)

\* Array.from without the Set in between
Dedupe_none(seq) == seq

RECURSIVE Dedupe(_)
Dedupe(seq) ==
    IF Len(seq) = 0 THEN seq
    ELSE SetAdd(Dedupe(Front(seq)), Last(seq))

RECURSIVE MapNormalize(_)
MapNormalize(seq) ==
    IF Len(seq) = 0 THEN seq
    ELSE <<normalizePath(Head(seq))>> \o MapNormalize(Tail(seq))

\* initJsPaths in a host whose globals JS_PATH and CommonJS are `jsPath` and
\* `commonJs`, Undefined standing for a global that is not defined
initJsPathsOf(jsPath, commonJs) ==
    Dedupe(SelectSeq(
        MapNormalize(Split(
            IF jsPath # Undefined /\ jsPath # <<>> THEN jsPath
            ELSE dirname(IF commonJs # Undefined THEN commonJs ELSE <<>>), ":")),
        LAMBDA path : stat(path) = FileType.Directory))

initJsPaths == initJsPathsOf(JS_PATH, CommonJS)

\* the globals of the host the loader runs in
HostGlobals == [JS_PATH |-> JS_PATH, CommonJS |-> CommonJS]

\* new Module(id), its default container being object number `container`
Module(id, container) ==
    [id |-> id, default |-> container, exports |-> container]

(***************************************************************************)
(* The files of the model                                                  *)
(***************************************************************************)
DirEntry == [type |-> FileType.Directory, text |-> NoText]

ScriptEntry == [type |-> FileType.RegularFile,
                text |-> [kind |-> "script", main |-> Undefined]]

EmptyEntry == [type |-> FileType.RegularFile, text |-> NoText]

DirM  == <<"/", "m">>
DirS  == <<"/", "m", "/", "s">>
FileA == <<"/", "m", "/", "a", ".", "js">>
FileB == <<"/", "m", "/", "b", ".", "js">>
FileC == <<"/", "m", "/", "c", ".", "js">>
FileD == <<"/", "m", "/", "s", "/", "d", ".", "js">>
FileE == <<"/", "m", "/", "e", ".", "js">>
DirT  == <<"/", "m", "/", "t">>
FileT == <<"/", "m", "/", "t", "/", "d", ".", "js">>

InitFs ==
    (DirM :> DirEntry) @@ (DirS :> DirEntry) @@ (FileA :> ScriptEntry)
        @@ (FileB :> ScriptEntry) @@ (FileD :> ScriptEntry)
        @@ (FileE :> EmptyEntry) @@ (DirT :> DirEntry) @@ (FileT :> ScriptEntry)

\* files that come into existence while the program runs
Creatable == {FileC}

\* files that are empty until their text is written
Writable == {FileE}

\* identifiers the main script requires
MainIds == { <<"a">>, <<"a", ".", "js">> }

\* identifiers module bodies require
BodyIds == { <<".", "/", "a">>, <<"b">> }

\* directories appended to require.paths
PushDirs == {DirS}

\* length require.paths grows to at most
MaxPaths == 2

\* the text of a JSON file whose top-level `main` is `main`
JsonEntry(main) == [type |-> FileType.RegularFile,
                    text |-> [kind |-> "json", main |-> main]]

\* the value of `main` in the package descriptors of the model
MainEntry == <<"lib", "/", "entry">>

\* a descriptor JSON.parse rejects, although it spells a `main`
MalformedEntry == [type |-> FileType.RegularFile,
                   text |-> [kind |-> "script", main |-> MainEntry]]

\* the files of the extension and package cases
FileFoo     == <<"/", "m", "/", "foo">>
FileFooJs   == <<"/", "m", "/", "foo", ".", "js">>
FileFooJson == <<"/", "m", "/", "foo", ".", "json">>
DirP        == <<"/", "m", "/", "pkg">>
FilePkgJson == <<"/", "m", "/", "pkg", "/", "package", ".", "json">>
FileIndexJs == <<"/", "m", "/", "pkg", "/", "index", ".", "js">>
FileIndexJson == <<"/", "m", "/", "pkg", "/", "index", ".", "json">>
DirPLib     == <<"/", "m", "/", "pkg", "/", "lib">>
FileEntry   == <<"/", "m", "/", "pkg", "/", "lib", "/", "entry">>
FileEntryJs == <<"/", "m", "/", "pkg", "/", "lib", "/", "entry", ".", "js">>
FileEntryJson == <<"/", "m", "/", "pkg", "/", "lib", "/", "entry", ".", "json">>
\* the directory `lib/entry` of the working directory of the shell
DirCwdLib   == <<"/", "lib">>
DirCwdEntry == <<"/", "lib", "/", "entry">>

\* the entry of `path` when it is present, nothing otherwise
Opt(present, path, entry) ==
    IF present THEN (path :> entry) ELSE [x \in {} |-> entry]

\* what is at /m/foo, and what is at /m/pkg/package.json
FooKinds == {"none", "file", "directory"}

Descriptors == {"none", "malformed", "empty", "directory", "nomain", "main"}

DescriptorEntry(d) ==
    CASE d = "malformed" -> MalformedEntry
      [] d = "empty" -> EmptyEntry
      [] d = "directory" -> DirEntry
      [] d = "nomain" -> JsonEntry(Undefined)
      [] OTHER -> JsonEntry(MainEntry)

\* the worlds of extension inference: foo, foo.js and foo.json in /m
FooWorlds ==
    { Opt(k # "none", FileFoo, IF k = "file" THEN ScriptEntry ELSE DirEntry)
        @@ Opt(js, FileFooJs, ScriptEntry)
        @@ Opt(json, FileFooJson, JsonEntry(Undefined))
        @@ InitFs :
        k \in FooKinds, js \in BOOLEAN, json \in BOOLEAN }

\* the worlds of package resolution: the directory /m/pkg
PkgWorlds ==
    { (DirP :> DirEntry) @@ (DirPLib :> DirEntry)
        @@ Opt(d # "none", FilePkgJson, DescriptorEntry(d))
        @@ Opt(ix[1], FileIndexJs, ScriptEntry)
        @@ Opt(ix[2], FileIndexJson, JsonEntry(Undefined))
        @@ Opt(en[1], FileEntry, ScriptEntry)
        @@ Opt(en[2], FileEntryJs, ScriptEntry)
        @@ Opt(en[3], FileEntryJson, JsonEntry(Undefined))
        @@ Opt(c, DirCwdLib, DirEntry) @@ Opt(c, DirCwdEntry, DirEntry)
        @@ InitFs :
        d \in Descriptors, ix \in BOOLEAN \X BOOLEAN,
        en \in BOOLEAN \X BOOLEAN \X BOOLEAN, c \in BOOLEAN }

\* the files of the node_modules cases
FileNm      == <<"/", "m", "/", "nm">>
FileNmJs    == <<"/", "m", "/", "nm", ".", "js">>
DirNM       == <<"/", "m", "/", "node_modules">>
FileQ       == <<"/", "m", "/", "node_modules", "/", "q", ".", "js">>
DirNmPkg    == <<"/", "m", "/", "node_modules", "/", "nm">>
FileNmIndex == <<"/", "m", "/", "node_modules", "/", "nm", "/", "index", ".", "js">>
DirNMNM     == <<"/", "m", "/", "node_modules", "/", "node_modules">>
DirZ        == <<"/", "m", "/", "node_modules", "/", "node_modules", "/", "z">>
FileZIndex  == <<"/", "m", "/", "node_modules", "/", "node_modules", "/", "z",
                 "/", "index", ".", "js">>
DirX        == <<"/", "m", "/", "node_modules", "/", "x">>
DirXY       == <<"/", "m", "/", "node_modules", "/", "x", "/", "y">>
FileXYIndex == <<"/", "m", "/", "node_modules", "/", "x", "/", "y",
                 "/", "index", ".", "js">>

\* what is at /m/nm or /m/nm.js, and what is at /m/node_modules/nm
DirectKinds == {"none", "file", "js"}

PackageKinds == {"none", "empty", "package"}

\* the worlds of the node_modules step
NmWorlds ==
    { (DirNM :> DirEntry) @@ (FileQ :> ScriptEntry)
        @@ Opt(k = "file", FileNm, ScriptEntry)
        @@ Opt(k = "js", FileNmJs, ScriptEntry)
        @@ Opt(n # "none", DirNmPkg, DirEntry)
        @@ Opt(n = "package", FileNmIndex, ScriptEntry)
        @@ Opt(z, DirNMNM, DirEntry) @@ Opt(z, DirZ, DirEntry)
        @@ Opt(z, FileZIndex, ScriptEntry)
        @@ Opt(xy, DirX, DirEntry) @@ Opt(xy, DirXY, DirEntry)
        @@ Opt(xy, FileXYIndex, ScriptEntry)
        @@ InitFs :
        k \in DirectKinds, n \in PackageKinds, z \in BOOLEAN, xy \in BOOLEAN }

\* the files of the JSON cases: data.json holds JSON, bad.json holds text that
\* is no JSON, and j (a name without extension) holds JSON
FileData == <<"/", "m", "/", "data", ".", "json">>
FileBad  == <<"/", "m", "/", "bad", ".", "json">>
FileJ    == <<"/", "m", "/", "j">>

JsonWorlds ==
    { (FileData :> JsonEntry(Undefined)) @@ (FileBad :> ScriptEntry)
        @@ (FileJ :> JsonEntry(Undefined)) @@ InitFs }

\* the files of the cases in which several steps of one candidate match
FileFooIndex   == <<"/", "m", "/", "foo", "/", "index", ".", "js">>
DirNmFoo       == <<"/", "m", "/", "node_modules", "/", "foo">>
FileNmFooIndex == <<"/", "m", "/", "node_modules", "/", "foo", "/", "index", ".", "js">>
FileSFooJs     == <<"/", "m", "/", "s", "/", "foo", ".", "js">>

\* what is at /m/foo: nothing, a file, a directory, a directory with index.js
ExactKinds == {"none", "file", "directory", "package"}

\* the worlds of the order of the steps: /m/foo, /m/node_modules/foo,
\* /m/foo.js and, in the later candidate /m/s, foo.js
OrderWorlds ==
    { (DirNM :> DirEntry)
        @@ Opt(k # "none", FileFoo, IF k = "file" THEN ScriptEntry ELSE DirEntry)
        @@ Opt(k = "package", FileFooIndex, ScriptEntry)
        @@ Opt(nm, DirNmFoo, DirEntry) @@ Opt(nm, FileNmFooIndex, ScriptEntry)
        @@ Opt(js, FileFooJs, ScriptEntry)
        @@ Opt(later, FileSFooJs, ScriptEntry)
        @@ InitFs :
        k \in ExactKinds, nm \in BOOLEAN, js \in BOOLEAN, later \in BOOLEAN }

\* the files of the cases in which `main` names a directory
FileLibIndexJs   == <<"/", "m", "/", "pkg", "/", "lib", "/", "index", ".", "js">>
FileLibIndexJson == <<"/", "m", "/", "pkg", "/", "lib", "/", "index", ".", "json">>
\* index.js in the directory `lib` of the working directory of the shell
FileCwdIndex     == <<"/", "lib", "/", "index", ".", "js">>

\* the values of `main` that name the directory lib of the package
LibMains == { <<"lib">>, <<".", "/", "lib">> }

\* what is at /lib: nothing, a directory, a directory with index.js
CwdKinds == {"none", "directory", "index"}

\* the worlds of a `main` that names a directory: the descriptor of /m/pkg,
\* /m/pkg/lib and its index files, /m/pkg/index.js, and /lib
LibWorlds ==
    { (DirP :> DirEntry) @@ (FilePkgJson :> JsonEntry(main))
        @@ Opt(lib, DirPLib, DirEntry)
        @@ Opt(lib /\ ix[1], FileLibIndexJs, ScriptEntry)
        @@ Opt(lib /\ ix[2], FileLibIndexJson, JsonEntry(Undefined))
        @@ Opt(index, FileIndexJs, ScriptEntry)
        @@ Opt(c # "none", DirCwdLib, DirEntry)
        @@ Opt(c = "index", FileCwdIndex, ScriptEntry)
        @@ InitFs :
        main \in LibMains, lib \in BOOLEAN, ix \in BOOLEAN \X BOOLEAN,
        index \in BOOLEAN, c \in CwdKinds }

\* an entry whose probe yields no output: the shell times out on it or may
\* not look at it
UnknownEntry == [type |-> FileType.Unknown, text |-> NoText]

FileFooPkgJson == <<"/", "m", "/", "foo", "/", "package", ".", "json">>

\* what the probe of a path finds: nothing, an entry it gets no output for,
\* the entry the resolver looks for
ProbeKinds == {"none", "unknown", "present"}

\* the worlds of probes without output: /m/foo, its descriptor and its
\* index.js, /m/node_modules/foo, /m/foo.js and, in the later candidate
\* /m/s, foo.js
UnknownWorlds ==
    { (DirNM :> DirEntry)
        @@ Opt(foo # "none", FileFoo,
               IF foo = "unknown" THEN UnknownEntry ELSE DirEntry)
        @@ Opt(foo = "present" /\ d, FileFooPkgJson, UnknownEntry)
        @@ Opt(foo = "present" /\ ix # "none", FileFooIndex,
               IF ix = "unknown" THEN UnknownEntry ELSE ScriptEntry)
        @@ Opt(nm # "none", DirNmFoo,
               IF nm = "unknown" THEN UnknownEntry ELSE DirEntry)
        @@ Opt(nm = "present", FileNmFooIndex, ScriptEntry)
        @@ Opt(js # "none", FileFooJs,
               IF js = "unknown" THEN UnknownEntry ELSE ScriptEntry)
        @@ Opt(later, FileSFooJs, ScriptEntry)
        @@ InitFs :
        foo \in ProbeKinds, d \in BOOLEAN, ix \in ProbeKinds,
        nm \in ProbeKinds, js \in ProbeKinds, later \in BOOLEAN }

\* the main script has not called require yet
NoCall == [kind |-> "none", id |-> <<>>, val |-> 0]

\* the state the script leaves behind, the files of the host and
\* require.paths being given
InitLoader ==
    /\ moduleCache = <<>>
    /\ resolveCache = <<>>
    /\ heap = << {}, {} >>
    /\ modules = << Module(<<>>, 1) >>
    /\ stack = <<>>
    /\ top = 0
    /\ steps = 0
    /\ log = {}
    /\ ends = {}
    /\ reads = <<>>
    /\ execs = <<>>
    /\ bindings = (Main :> PathsDescriptor(PathsArray))
    /\ mains = (Main :> MainDescriptor(Main))

InitState ==
    /\ globals = HostGlobals
    /\ paths = initJsPaths
    /\ ret = NoCall
    /\ InitLoader

\* the state after the script has run in a host that defines neither JS_PATH
\* nor CommonJS
InitUndefined ==
    /\ globals = [JS_PATH |-> Undefined, CommonJS |-> Undefined]
    /\ fs = InitFs
    /\ paths = initJsPathsOf(Undefined, Undefined)
    /\ ret = NoCall
    /\ InitLoader

\* the state after the script has run in a host whose files are one of `worlds`
InitWith(worlds) ==
    /\ fs \in worlds
    /\ InitState

Init ==
    /\ fs = InitFs
    /\ InitState

(***************************************************************************)
(* Module loading functions                                                *)
(***************************************************************************)
Count(counter, key) == IF key \in DOMAIN counter THEN counter[key] ELSE 0

Bump(counter, key) ==
    [k \in DOMAIN counter \cup {key} |->
        IF k = key THEN Count(counter, key) + 1 ELSE counter[k]]

Running(frames) == { modules[frames[i].mod].id : i \in 1..Len(frames) }

\* what the frame of the running body of `file` has added to its exports
Prepared(frames, file) ==
    UNION { frames[i].added : i \in { j \in 1..Len(frames) :
                                        modules[frames[j].mod].id = file } }

\* loadFile without the test of the text it has read
loadFile_nocheck(filepath) ==
    IF filepath \in DOMAIN moduleCache THEN "cached"
    ELSE IF extname(filepath) = <<".", "json">>
         THEN IF readFile(filepath).kind = "json" THEN "json" ELSE "badjson"
    ELSE "script"

\* loadFile without the look into the module cache
loadFile_reload(filepath) ==
    IF readFile(filepath).kind = "empty" THEN "unreadable"
    ELSE IF extname(filepath) = <<".", "json">>
         THEN IF readFile(filepath).kind = "json" THEN "json" ELSE "badjson"
    ELSE "script"

\* how loadFile(filepath) proceeds
loadFile(filepath) ==
    IF filepath \in DOMAIN moduleCache THEN "cached"
    ELSE IF readFile(filepath).kind = "empty" THEN "unreadable"
    ELSE IF extname(filepath) = <<".", "json">>
         THEN IF readFile(filepath).kind = "json" THEN "json" ELSE "badjson"
    ELSE "script"

\* loadFile without the insertion that precedes the body
moduleCacheSet_skip(filepath, module) == moduleCache

\* moduleCache.set(filepath, module)
moduleCacheSet(filepath, module) ==
    [k \in DOMAIN moduleCache \cup {filepath} |->
        IF k = filepath THEN module ELSE moduleCache[k]]

\* the third argument of fn.call(module, namespacedRequire, module, module.exports)
\* cloneEnumerableProperties(require, require.bind(module)): the bound
\* function of `module` receives the descriptors of require's properties
cloneEnumerableProperties(module) ==
    [k \in DOMAIN bindings \cup {module} |->
        IF k = module THEN bindings[Main] ELSE bindings[k]]

\* Object.keys(require) holds 'main' when that property is enumerable: the
\* bound function of `module` then receives its descriptor
CloneMain(module) ==
    [k \in DOMAIN mains \cup (IF mains[Main].enumerable THEN {module} ELSE {}) |->
        IF k = module THEN mains[Main] ELSE mains[k]]

ExportsArgument_outer(module) == modules[Main].exports

ExportsArgument(module) == module.exports

\* resolveExports without the copy of `exports` into module.exports
resolveExports_nocopy(module, exports) ==
    IF module.default = module.exports \/ module.default = exports
    THEN [throws |-> FALSE, exports |-> module.exports]
    ELSE [throws |-> module.exports # exports, exports |-> module.exports]

\* resolveExports without `case exports`
resolveExports_nocase(module, exports) ==
    IF module.default = module.exports
    THEN [throws |-> FALSE, exports |-> exports]
    ELSE [throws |-> module.exports # exports, exports |-> module.exports]

\* resolveExports without the throw
resolveExports_nothrow(module, exports) ==
    IF module.default = module.exports
    THEN [throws |-> FALSE, exports |-> exports]
    ELSE [throws |-> FALSE, exports |-> module.exports]

\* the switch of resolveExports over a module record and the binding `exports`
resolveExports(module, exports) ==
    IF module.default = module.exports
    THEN [throws |-> FALSE, exports |-> exports]
    ELSE IF module.default = exports
         THEN [throws |-> FALSE, exports |-> module.exports]
    ELSE [throws |-> module.exports # exports, exports |-> module.exports]

Throw(kind, moduleId) ==
    /\ stack' = <<>>
    /\ ret' = [kind |-> kind, id |-> moduleId, val |-> 0]

\* the module whose body is the innermost of `frames`, the main one if none
Caller(frames) == IF frames = <<>> THEN Main ELSE frames[Len(frames)].mod

\* an entry of the history of require calls: what the call was given, what
\* it found (cands, paths, read, cached: as they were when the entry was
\* written) and what it did
Called(file, moduleId, parent, val, phase, prepared, props, probe) ==
    [file |-> file, id |-> moduleId, from |-> modules[parent].id, val |-> val,
     phase |-> phase, prepared |-> prepared, props |-> props, probe |-> probe,
     inner |-> Caller(stack), paths |-> RequirePaths,
     cands |-> resolveSearchPaths(moduleId, dirname(modules[parent].id)),
     read |-> IF file = Undefined THEN "none" ELSE readFile(file).kind,
     cached |-> file \in DOMAIN moduleCache]

\* const parent = (this instanceof Module) ? this : require.main, read by
\* the innermost body instead of the module the function is bound to
RequestingDirectory_innermost(parent, base) ==
    dirname(modules[Caller(base)].id)

\* dirname(parent.id), `parent` being the module require is bound to
RequestingDirectory(parent, base) == dirname(modules[parent].id)

\* require(moduleId) called with `this` = parent; `base` is the caller's stack
Require(moduleId, parent, base) ==
    \E directory \in {RequestingDirectory(parent, base)} :
    \E filepath \in {resolveFile(moduleId, directory)} :
    \E probe \in {Probe(moduleId, directory)} :
    \E how \in {IF filepath = Undefined THEN "notfound" ELSE loadFile(filepath)} :
    \E module \in {Len(modules) + 1} :
    \E object \in {Len(heap) + 1} :
        /\ resolveCache' = resolveFileCache(moduleId, directory)
        /\ UNCHANGED <<globals, fs, paths, ends>>
        /\ reads' = IF how \in {"notfound", "cached"} THEN reads
                    ELSE Bump(reads, filepath)
        /\ \/ /\ how = "notfound"
              /\ Throw("notfound", moduleId)
              /\ log' = log \cup {Called(Undefined, moduleId, parent, 0,
                                         "notfound", {}, {}, probe)}
              /\ UNCHANGED <<moduleCache, heap, modules, execs, bindings, mains>>
           \/ /\ how = "cached"
              /\ stack' = base
              /\ ret' = IF base = <<>>
                        THEN [kind |-> "ok", id |-> moduleId,
                              val |-> modules[moduleCache[filepath]].exports]
                        ELSE ret
              /\ log' = log \cup
                   {Called(filepath, moduleId, parent,
                           modules[moduleCache[filepath]].exports,
                           IF filepath \in Running(base)
                           THEN "executing" ELSE "loaded",
                           Prepared(base, filepath),
                           heap[modules[moduleCache[filepath]].exports], probe)}
              /\ UNCHANGED <<moduleCache, heap, modules, execs, bindings, mains>>
           \/ /\ how = "unreadable"
              /\ Throw("loadfail", moduleId)
              /\ log' = log \cup {Called(filepath, moduleId, parent, 0,
                                         "loadfail", {}, {}, probe)}
              /\ UNCHANGED <<moduleCache, heap, modules, execs, bindings, mains>>
           \/ /\ how = "badjson"
              /\ Throw("jsonerr", moduleId)
              /\ heap' = Append(heap, {})
              /\ modules' = Append(modules, Module(filepath, object))
              /\ moduleCache' = moduleCacheSet(filepath, module)
              /\ log' = log \cup {Called(filepath, moduleId, parent, 0,
                                         "jsonerr", {}, {}, probe)}
              /\ UNCHANGED <<execs, bindings, mains>>
           \/ /\ how = "json"
              /\ heap' = heap \o << {}, {"json"} >>
              /\ modules' = Append(modules,
                    [Module(filepath, object) EXCEPT !.exports = object + 1])
              /\ moduleCache' = moduleCacheSet(filepath, module)
              /\ stack' = base
              /\ ret' = IF base = <<>>
                        THEN [kind |-> "ok", id |-> moduleId, val |-> object + 1]
                        ELSE ret
              /\ log' = log \cup {Called(filepath, moduleId, parent, object + 1,
                                         "fresh", {}, {"json"}, probe)}
              /\ UNCHANGED <<execs, bindings, mains>>
           \/ /\ how = "script"
              /\ Len(base) < MaxDepth
              /\ heap' = Append(heap, {})
              /\ modules' = Append(modules, Module(filepath, object))
              /\ moduleCache' = moduleCacheSet(filepath, module)
              /\ stack' = Append(base,
                    [mod |-> module,
                     exports |-> ExportsArgument(Module(filepath, object)),
                     added |-> {}, moduleId |-> moduleId, parent |-> parent])
              /\ ret' = IF base = <<>>
                        THEN [kind |-> "pending", id |-> moduleId, val |-> 0]
                        ELSE ret
              /\ execs' = Bump(execs, filepath)
              /\ bindings' = cloneEnumerableProperties(module)
              /\ mains' = CloneMain(module)
              /\ log' = log \cup {Called(filepath, moduleId, parent, 0,
                                         "started", {}, {}, probe)}

(***************************************************************************)
(* The main script                                                         *)
(***************************************************************************)
\* the main script calls require(moduleId)
MainRequire(moduleId) ==
    /\ stack = <<>>
    /\ top < MaxTop
    /\ top' = top + 1
    /\ steps' = steps
    /\ Require(moduleId, Main, <<>>)

\* the main script calls require(module.id) with the id of a module record
\* that has been handed to it
MainRequireModuleId(m) ==
    /\ m \in 2..Len(modules)
    /\ MainRequire(modules[m].id)

\* array.push(dir): the elements of require.paths after the push
ArrayPush(array, dir) == IF array = PathsArray THEN Append(paths, dir) ELSE paths

\* require.paths = value: the descriptor after the assignment
AssignProperty(desc, value) ==
    IF desc.writable THEN [desc EXCEPT !.value = value] ELSE desc

\* Object.defineProperty(require, 'paths', { value }): the descriptor after
DefineProperty(desc, value) ==
    IF desc.configurable \/ desc.writable THEN [desc EXCEPT !.value = value]
    ELSE desc

\* the descriptor of `paths` after an attempt to replace the array by `value`
Replaced(desc, how, value) ==
    IF how = "define" THEN DefineProperty(desc, value)
    ELSE AssignProperty(desc, value)

\* the attempt throws a TypeError: a rejected definition always, a rejected
\* assignment in strict code only
Rejected(desc, how, value) ==
    /\ Replaced(desc, how, value).value # value
    /\ how \in {"define", "strict"}

\* the ways of the attempt: Object.defineProperty, an assignment in strict
\* code, an assignment in sloppy code
Hows == {"define", "strict", "sloppy"}

\* the main script tries to replace require.paths by a new array
MainPathsReplace(how) ==
    /\ stack = <<>>
    /\ top < MaxTop
    /\ top' = top + 1
    /\ heap' = Append(heap, {})
    /\ bindings' = [bindings EXCEPT
                        ![Main] = Replaced(@, how, Len(heap) + 1)]
    /\ ret' = IF Rejected(bindings[Main], how, Len(heap) + 1)
              THEN [kind |-> "typeerror", id |-> <<>>, val |-> 0]
              ELSE ret
    /\ UNCHANGED <<globals, fs, paths, moduleCache, resolveCache, modules, stack, steps,
                   log, ends, reads, execs, mains>>

\* the main script tries to replace require.main by the module record `m`,
\* which a module it has required has handed out
MainMainReplace(how, m) ==
    /\ stack = <<>>
    /\ top < MaxTop
    /\ top' = top + 1
    /\ m \in 2..Len(modules)
    /\ mains' = [mains EXCEPT ![Main] = Replaced(@, how, m)]
    /\ ret' = IF Rejected(mains[Main], how, m)
              THEN [kind |-> "typeerror", id |-> <<>>, val |-> 0]
              ELSE ret
    /\ UNCHANGED <<globals, fs, paths, moduleCache, resolveCache, heap, modules, stack,
                   steps, log, ends, reads, execs, bindings>>

\* the main script calls require.paths.push(dir)
MainPathsPush(dir) ==
    /\ stack = <<>>
    /\ Len(paths) < MaxPaths
    /\ paths' = ArrayPush(bindings[Main].value, dir)
    /\ UNCHANGED <<globals, fs, moduleCache, resolveCache, heap, modules, stack, ret,
                   top, steps, log, ends, reads, execs, bindings, mains>>

(***************************************************************************)
(* Statements of a module body (the innermost frame executes)              *)
(***************************************************************************)
Frame == stack[Len(stack)]

\* the innermost body executes one more statement
Step ==
    /\ stack # <<>>
    /\ steps < MaxStmts
    /\ steps' = steps + 1

Adding(frame, prop) == [frame EXCEPT !.added = frame.added \cup {prop}]

AddProp(object, prop) == [heap EXCEPT ![object] = heap[object] \cup {prop}]

\* exports.e = ...
ExportsAdd ==
    /\ Step
    /\ heap' = AddProp(Frame.exports, "e")
    /\ stack' = [stack EXCEPT ![Len(stack)] =
                    Adding(Frame, "e")]
    /\ UNCHANGED <<globals, fs, paths, moduleCache, resolveCache, modules, ret, top,
                   log, ends, reads, execs, bindings, mains>>

\* module.exports.m = ...
ModuleExportsAdd ==
    /\ Step
    /\ heap' = AddProp(modules[Frame.mod].exports, "m")
    /\ stack' = [stack EXCEPT ![Len(stack)] =
                    Adding(Frame, "m")]
    /\ UNCHANGED <<globals, fs, paths, moduleCache, resolveCache, modules, ret, top,
                   log, ends, reads, execs, bindings, mains>>

\* exports = { E: ... }
ExportsAssign ==
    /\ Step
    /\ heap' = Append(heap, {"E"})
    /\ stack' = [stack EXCEPT ![Len(stack)] =
                    [Adding(Frame, "E") EXCEPT !.exports = Len(heap) + 1]]
    /\ UNCHANGED <<globals, fs, paths, moduleCache, resolveCache, modules, ret, top,
                   log, ends, reads, execs, bindings, mains>>

\* module.exports = { M: ... }
ModuleExportsAssign ==
    /\ Step
    /\ heap' = Append(heap, {"M"})
    /\ modules' = [modules EXCEPT ![Frame.mod].exports = Len(heap) + 1]
    /\ stack' = [stack EXCEPT ![Len(stack)] =
                    Adding(Frame, "M")]
    /\ UNCHANGED <<globals, fs, paths, moduleCache, resolveCache, ret, top,
                   log, ends, reads, execs, bindings, mains>>

\* exports = module.exports = { B: ... }
BothAssign ==
    /\ Step
    /\ heap' = Append(heap, {"B"})
    /\ modules' = [modules EXCEPT ![Frame.mod].exports = Len(heap) + 1]
    /\ stack' = [stack EXCEPT ![Len(stack)] =
                    [Adding(Frame, "B") EXCEPT !.exports = Len(heap) + 1]]
    /\ UNCHANGED <<globals, fs, paths, moduleCache, resolveCache, ret, top,
                   log, ends, reads, execs, bindings, mains>>

\* require(moduleId) through the require bound to the body's module
BodyRequire(moduleId) ==
    /\ Step
    /\ top' = top
    /\ Require(moduleId, Frame.mod, stack)

\* require(module.id) with the id of any module record, from a body
BodyRequireModuleId(m) ==
    /\ m \in 2..Len(modules)
    /\ BodyRequire(modules[m].id)

\* require.paths.push(dir)
BodyPathsPush(dir) ==
    /\ Step
    /\ Len(paths) < MaxPaths
    /\ paths' = ArrayPush(bindings[Frame.mod].value, dir)
    /\ UNCHANGED <<globals, fs, moduleCache, resolveCache, heap, modules, stack, ret, top,
                   log, ends, reads, execs, bindings, mains>>

\* require(moduleId) through the require bound to another module `m`, which
\* that module has handed out
BodyRequireVia(moduleId, m) ==
    /\ Step
    /\ m \in DOMAIN bindings \ {Main, Frame.mod}
    /\ top' = top
    /\ Require(moduleId, m, stack)

\* the body tries to replace the `paths` of its require by a new array
BodyPathsReplace(how) ==
    /\ Step
    /\ heap' = Append(heap, {})
    /\ bindings' = [bindings EXCEPT
                        ![Frame.mod] = Replaced(@, how, Len(heap) + 1)]
    /\ IF Rejected(bindings[Frame.mod], how, Len(heap) + 1)
       THEN Throw("typeerror", <<>>)
       ELSE UNCHANGED <<stack, ret>>
    /\ UNCHANGED <<globals, fs, paths, moduleCache, resolveCache, modules, top,
                   log, ends, reads, execs, mains>>

\* the body tries to make its own module the `main` of its require
BodyMainReplace(how) ==
    /\ Step
    /\ Frame.mod \in DOMAIN mains
    /\ mains' = [mains EXCEPT ![Frame.mod] = Replaced(@, how, Frame.mod)]
    /\ IF Rejected(mains[Frame.mod], how, Frame.mod)
       THEN Throw("typeerror", <<>>)
       ELSE UNCHANGED <<stack, ret>>
    /\ UNCHANGED <<globals, fs, paths, moduleCache, resolveCache, heap, modules, top,
                   log, ends, reads, execs, bindings>>

\* throw new Error(...)
BodyThrow ==
    /\ Step
    /\ Throw("thrown", <<>>)
    /\ UNCHANGED <<globals, fs, paths, moduleCache, resolveCache, heap, modules, top,
                   log, ends, reads, execs, bindings, mains>>

\* the body reaches its end: resolveExports runs, loadFile and require return
BodyEnd ==
    /\ stack # <<>>
    /\ \E module \in {modules[Frame.mod]} :
       \E res \in {resolveExports(module, Frame.exports)} :
           /\ ends' = ends \cup
                 {[file |-> module.id, default |-> module.default,
                   exports |-> Frame.exports, moduleExports |-> module.exports,
                   added |-> Frame.added, throws |-> res.throws,
                   val |-> res.exports, props |-> heap[res.exports]]}
           /\ IF res.throws
              THEN /\ Throw("conflict", <<>>)
                   /\ UNCHANGED <<modules, log>>
              ELSE /\ modules' = [modules EXCEPT ![Frame.mod].exports = res.exports]
                   /\ stack' = Front(stack)
                   /\ ret' = IF Len(stack) = 1
                             THEN [kind |-> "ok", id |-> ret.id, val |-> res.exports]
                             ELSE ret
                   /\ log' = log \cup
                        {[Called(module.id, Frame.moduleId, Frame.parent,
                                 res.exports, "fresh", {}, heap[res.exports],
                                 module.id)
                            EXCEPT !.inner = Caller(Front(stack))]}
    /\ UNCHANGED <<globals, fs, paths, moduleCache, resolveCache, heap, top, steps,
                   reads, execs, bindings, mains>>

(***************************************************************************)
(* The environment                                                         *)
(***************************************************************************)
\* a file that did not exist is created
CreateFile(filepath) ==
    /\ filepath \notin DOMAIN fs
    /\ fs' = (filepath :> ScriptEntry) @@ fs
    /\ UNCHANGED <<globals, paths, moduleCache, resolveCache, heap, modules,
                   stack, ret,
                   top, steps, log, ends, reads, execs, bindings, mains>>

\* the text of a file that was empty is written
WriteFile(filepath) ==
    /\ filepath \in DOMAIN fs
    /\ fs[filepath] = EmptyEntry
    /\ fs' = [fs EXCEPT ![filepath] = ScriptEntry]
    /\ UNCHANGED <<globals, paths, moduleCache, resolveCache, heap, modules,
                   stack, ret,
                   top, steps, log, ends, reads, execs, bindings, mains>>

Next ==
    \/ \E moduleId \in MainIds : MainRequire(moduleId)
    \/ ExportsAdd
    \/ ModuleExportsAdd
    \/ ExportsAssign
    \/ ModuleExportsAssign
    \/ BothAssign
    \/ \E moduleId \in BodyIds : BodyRequire(moduleId)
    \/ BodyThrow
    \/ BodyEnd

\* the loader: module bodies that export, require each other and fail
Spec == Init /\ [][Next]_vars

\* identifiers required while files appear and require.paths grows
SearchIds == { <<"c">>, <<"d">> }

SearchBodyIds == { <<"c">>, <<"d">> }

NextSearch ==
    \/ \E moduleId \in SearchIds : MainRequire(moduleId)
    \/ \E dir \in PushDirs : MainPathsPush(dir)
    \/ \E moduleId \in SearchBodyIds : BodyRequire(moduleId)
    \/ \E dir \in PushDirs : BodyPathsPush(dir)
    \/ BodyEnd
    \/ \E filepath \in Creatable : CreateFile(filepath)

\* the resolver: requires that fail, then succeed once the file can be found
SpecSearch == Init /\ [][NextSearch]_vars

\* identifiers required while the text of a file is still to be written
LoadIds == { <<"a">>, <<"e">> }

LoadBodyIds == { <<"e">>, <<".", "/", "e", ".", "js">> }

NextLoad ==
    \/ \E moduleId \in LoadIds : MainRequire(moduleId)
    \/ \E moduleId \in LoadBodyIds : BodyRequire(moduleId)
    \/ ExportsAdd
    \/ BodyEnd
    \/ \E filepath \in Writable : WriteFile(filepath)

\* the loader on a file whose text the host cannot read at first
SpecLoad == Init /\ [][NextLoad]_vars

\* identifiers required while require.paths is appended to
PathsMainIds == { <<"d">>, <<"a">>, <<".", "/", "s", "/", "d">> }

PathsBodyIds == { <<"d">>, <<"b">> }

PathsPushDirs == {DirS, DirT}

NextPaths ==
    \/ \E moduleId \in PathsMainIds : MainRequire(moduleId)
    \/ \E moduleId \in PathsBodyIds : BodyRequire(moduleId)
    \/ \E dir \in PathsPushDirs : BodyPathsPush(dir)
    \/ BodyEnd

\* the search paths: one array, appended to by bodies while others execute
SpecPaths == Init /\ [][NextPaths]_vars

\* identifiers of every shape, required from the main script and from bodies
ShapesMainIds == { <<"a">>, <<".", "/", "s", "/", "d">>,
                   <<"/", "m", "/", "s", "/", "d">>, <<"/", "a">> }

ShapesBodyIds == { <<"d">>, <<".", "/", "a">> }

NextShapes ==
    \/ \E moduleId \in ShapesMainIds : MainRequire(moduleId)
    \/ \E moduleId \in ShapesBodyIds : BodyRequire(moduleId)
    \/ \E moduleId \in ShapesBodyIds : \E m \in 1..Len(modules) :
            BodyRequireVia(moduleId, m)
    \/ \E how \in Hows : MainPathsReplace(how)
    \/ \E how \in Hows : BodyPathsReplace(how)
    \/ BodyEnd

\* the candidates of a call: by the shape of the identifier and by the
\* module the require function is bound to, whose `paths` is attacked
SpecShapes == Init /\ [][NextShapes]_vars

\* identifiers of a file without extension and of a package directory
PackagesMainIds == { <<"foo">>, <<"pkg">> }

PackagesBodyIds == { <<".", ".", "/", "pkg">> }

NextPackages ==
    \/ \E moduleId \in PackagesMainIds : MainRequire(moduleId)
    \/ \E moduleId \in PackagesBodyIds : BodyRequire(moduleId)
    \/ BodyEnd

\* the resolver on every combination of the files it looks for
SpecPackages == InitWith(FooWorlds \cup PkgWorlds) /\ [][NextPackages]_vars

\* identifiers of packages under node_modules, with and without a slash
NodeModulesMainIds == { <<"nm">>, <<"z">>, <<"x", "/", "y">>,
                        <<"node_modules", "/", "q">> }

NodeModulesBodyIds == { <<"nm">>, <<"z">> }

NextNodeModules ==
    \/ \E moduleId \in NodeModulesMainIds : MainRequire(moduleId)
    \/ \E moduleId \in NodeModulesBodyIds : BodyRequire(moduleId)
    \/ BodyEnd

\* the resolver on packages under node_modules
SpecNodeModules == InitWith(NmWorlds) /\ [][NextNodeModules]_vars

\* identifiers of JSON files and of scripts whose load fails
JsonMainIds == { <<"data">>, <<"bad", ".", "json">>, <<"j">>, <<"a">> }

JsonBodyIds == { <<".", "/", "bad", ".", "json">>, <<".", "/", "data", ".", "json">> }

NextJson ==
    \/ \E moduleId \in JsonMainIds : MainRequire(moduleId)
    \/ \E moduleId \in JsonBodyIds : BodyRequire(moduleId)
    \/ ExportsAssign
    \/ ModuleExportsAssign
    \/ BodyThrow
    \/ BodyEnd

\* the loader on JSON files and on loads that fail
SpecJson == InitWith(JsonWorlds) /\ [][NextJson]_vars

\* identifiers required in a host without JS_PATH and CommonJS
UndefinedMainIds == { <<"a">>, <<".", "/", "a">>, <<"/", "m", "/", "a", ".", "js">>,
                      <<"/", "m", "/", "s", "/", "d">> }

UndefinedBodyIds == { <<"b">>, <<".", "/", "b">>, <<"d">> }

NextUndefined ==
    \/ \E moduleId \in UndefinedMainIds : MainRequire(moduleId)
    \/ \E moduleId \in UndefinedBodyIds : BodyRequire(moduleId)
    \/ ExportsAdd
    \/ BodyEnd

\* the loader in a host that defines neither JS_PATH nor CommonJS
SpecUndefined == InitUndefined /\ [][NextUndefined]_vars

\* identifiers required while require.main is attacked
MainAttackIds == { <<"a">>, <<".", "/", "s", "/", "d">> }

MainAttackBodyIds == { <<"b">>, <<".", "/", "a">> }

NextMain ==
    \/ \E moduleId \in MainAttackIds : MainRequire(moduleId)
    \/ \E moduleId \in MainAttackBodyIds : BodyRequire(moduleId)
    \/ \E how \in Hows : \E m \in 1..Len(modules) : MainMainReplace(how, m)
    \/ \E how \in Hows : BodyMainReplace(how)
    \/ BodyEnd

\* the `main` of the require functions, which scripts try to replace
SpecMain == Init /\ [][NextMain]_vars

\* segments the paths given to normalizePath are made of, and how many at most
PathSegments == { <<>>, <<".">>, <<".", ".">>, <<"a">>, <<"b">>, <<"c">> }

MaxSegments == 5

PathInputs ==
    { Join(segs, "/") :
        segs \in UNION { [1..n -> PathSegments] : n \in 1..MaxSegments } }

\* a caller holds a path it has not normalized yet
InitNormalize ==
    /\ globals = HostGlobals
    /\ fs = InitFs
    /\ paths = initJsPaths
    /\ \E filepath \in PathInputs :
            ret = [kind |-> "path", id |-> filepath, val |-> 0]
    /\ InitLoader

\* normalizePath(filepath) is called and returns
NormalizeCall ==
    /\ ret.kind = "path"
    /\ ret' = [ret EXCEPT !.kind = "normalized"]
    /\ log' = {[filepath |-> ret.id, normalized |-> normalizePath(ret.id)]}
    /\ UNCHANGED <<globals, fs, paths, moduleCache, resolveCache, heap, modules, stack,
                   top, steps, ends, reads, execs, bindings, mains>>

NextNormalize == NormalizeCall

\* normalizePath on every path of a few segments
SpecNormalize == InitNormalize /\ [][NextNormalize]_vars

\* identifiers required where several steps of a candidate match
OrderMainIds == { <<"foo">>, <<".", "/", "s", "/", "d">> }

OrderBodyIds == { <<"foo">> }

NextOrder ==
    \/ \E moduleId \in OrderMainIds : MainRequire(moduleId)
    \/ \E moduleId \in OrderBodyIds : BodyRequire(moduleId)
    \/ BodyEnd

\* the resolver where a file, a package, a node_modules package and a file
\* with an extension compete in one candidate and with a later candidate
SpecOrder == InitWith(OrderWorlds) /\ [][NextOrder]_vars

\* identifiers required where `main` names a directory
MainDirIds == { <<"pkg">> }

MainDirBodyIds == { <<"pkg">> }

NextMainDir ==
    \/ \E moduleId \in MainDirIds : MainRequire(moduleId)
    \/ \E m \in 1..Len(modules) : MainRequireModuleId(m)
    \/ \E moduleId \in MainDirBodyIds : BodyRequire(moduleId)
    \/ \E m \in 1..Len(modules) : BodyRequireModuleId(m)
    \/ BodyEnd

\* the resolver on a package whose `main` names a directory, and require
\* called with the ids of the modules it has loaded
SpecMainDir == InitWith(LibWorlds) /\ [][NextMainDir]_vars

\* pieces the arguments of joinPath are made of, and how many at most
JoinPieces == { <<>>, <<"a">>, <<"/", "a">>, <<"a", "/">>, <<"/", "a", "/">>,
                <<"/">>, <<"b">>, <<"b", "/", "c">> }

MaxPieces == 3

JoinInputs == UNION { [1..n -> JoinPieces] : n \in 0..MaxPieces }

\* a caller holds the arguments of a call of joinPath
InitJoin ==
    /\ globals = HostGlobals
    /\ fs = InitFs
    /\ paths = initJsPaths
    /\ \E pieces \in JoinInputs :
            ret = [kind |-> "pieces", id |-> pieces, val |-> 0]
    /\ InitLoader

\* joinPath(...pieces) is called and returns
JoinCall ==
    /\ ret.kind = "pieces"
    /\ ret' = [ret EXCEPT !.kind = "joined"]
    /\ log' = {[pieces |-> ret.id, joined |-> joinPath(ret.id)]}
    /\ UNCHANGED <<globals, fs, paths, moduleCache, resolveCache, heap, modules, stack,
                   top, steps, ends, reads, execs, bindings, mains>>

NextJoin == JoinCall

\* joinPath on every list of a few pieces
SpecJoin == InitJoin /\ [][NextJoin]_vars

\* dirname(filepath) is called and returns
DirnameCall ==
    /\ ret.kind = "path"
    /\ ret' = [ret EXCEPT !.kind = "dirname"]
    /\ log' = {[filepath |-> ret.id, dirname |-> dirname(ret.id)]}
    /\ UNCHANGED <<globals, fs, paths, moduleCache, resolveCache, heap, modules, stack,
                   top, steps, ends, reads, execs, bindings, mains>>

NextDirname == DirnameCall

\* dirname on every path of a few segments
SpecDirname == InitNormalize /\ [][NextDirname]_vars

\* the resolver where probes yield no output
SpecUnknown == InitWith(UnknownWorlds) /\ [][NextOrder]_vars

\* entries JS_PATH is made of, and how many at most: no entry, directories
\* (one with a trailing slash, one spelled with a '.' segment), a regular
\* file, a path that does not exist, a relative path
PathEntries == { <<>>, <<"/", "m">>, <<"/", "m", "/", "s">>,
                 <<"/", "m", "/", "s", "/">>,
                 <<"/", "m", "/", ".", "/", "s">>,
                 <<"/", "m", "/", "a", ".", "js">>, <<"/", "y">>, <<"m">> }

MaxEntries == 2

\* the values of CommonJS: require.js in /m, in /m/s and in a directory
\* that does not exist
CommonJsInputs == { CommonJS, <<"/", "m", "/", "s", "/", "require", ".", "js">>,
                    <<"/", "y", "/", "require", ".", "js">> }

\* the globals of the hosts: JS_PATH set (the empty string included) with
\* CommonJS as it is, and JS_PATH not defined with CommonJS set
GlobalsInputs ==
    { [JS_PATH |-> Join(entries, ":"), CommonJS |-> CommonJS] :
        entries \in UNION { [1..n -> PathEntries] : n \in 1..MaxEntries } }
    \cup { [JS_PATH |-> Undefined, CommonJS |-> c] : c \in CommonJsInputs }

\* the state after the script has run in a host with one of these globals
InitGlobals ==
    /\ globals \in GlobalsInputs
    /\ fs = InitFs
    /\ paths = initJsPathsOf(globals.JS_PATH, globals.CommonJS)
    /\ ret = NoCall
    /\ InitLoader

\* directories the main script appends: one that exists, one that does not
InitPushDirs == { DirT, <<"/", "x">> }

InitMainIds == { <<"d">> }

NextInitPaths ==
    \/ \E moduleId \in InitMainIds : MainRequire(moduleId)
    \/ \E dir \in InitPushDirs : MainPathsPush(dir)
    \/ BodyEnd

\* the initialisation of require.paths from the globals of the host, and
\* the appends of the main script
SpecInitPaths == InitGlobals /\ [][NextInitPaths]_vars

TypeOK ==
    /\ \A i \in 1..Len(stack) : stack[i].mod \in 1..Len(modules)
    /\ \A f \in DOMAIN moduleCache : moduleCache[f] \in 1..Len(modules)

(***************************************************************************)
(* Properties                                                              *)
(***************************************************************************)
\* the files the resolver has returned so far
ResolvedFiles == { resolveCache[k] : k \in DOMAIN resolveCache }

\* the property names that mark a reassignment of a binding
Reassigned == {"E", "M", "B"}

\* the require calls that have returned a value
Returns == { r \in log : r.phase \in {"fresh", "loaded", "executing"} }

FreshReturns(file) == { r \in log : r.file = file /\ r.phase = "fresh" }

\* C1: the record of a module is in the module cache from the moment its
\* body starts executing, and a require that resolves to a file whose body
\* is still executing returns the current module.exports of that record
\* without reading the file and without starting a body.
C1_CachedBeforeBody ==
    /\ [](\A i \in 1..Len(stack) :
            /\ modules[stack[i].mod].id \in DOMAIN moduleCache
            /\ moduleCache[modules[stack[i].mod].id] = stack[i].mod)
    /\ [][\A r \in log' \ log :
            r.phase = "executing" =>
                /\ reads' = reads
                /\ execs' = execs
                /\ stack' = stack
                /\ modules' = modules
                /\ r.val = modules[moduleCache[r.file]].exports]_vars

C1_Witness ==
    \E r \in log : r.phase = "executing" /\ Len(stack) >= 2

\* C2: the number of module bodies nested on the call stack never exceeds
\* the number of distinct files the resolver has returned, so the recursion
\* of require through module bodies is bounded whatever cycles exist.
C2_DepthBounded ==
    Len(stack) <= Cardinality(ResolvedFiles)

C2_Witness ==
    /\ Len(stack) = Cardinality(ResolvedFiles)
    /\ Len(stack) = 2
    /\ \E r \in log : r.phase = "executing"

\* C3: the body of a resolved file is started at most once in the whole run,
\* and no file has two bodies on the call stack at the same time.
C3_ExecutedAtMostOnce ==
    /\ \A f \in DOMAIN execs : execs[f] <= 1
    /\ \A i, j \in 1..Len(stack) :
            modules[stack[i].mod].id = modules[stack[j].mod].id => i = j

\* a require of a file whose load failed has returned without a second run
C3_Witness ==
    \E r \in log :
        /\ r.phase = "loaded"
        /\ FreshReturns(r.file) = {}
        /\ r.file \notin Running(stack)
        /\ execs[r.file] = 1

\* C4 as stated: every require call that resolves to a file returns the
\* same reference.
C4_Original ==
    \A r1, r2 \in Returns : r1.file = r2.file => r1.val = r2.val

\* C4 amended: the require calls that resolve to a file and return while its
\* body is not executing all return the same reference, whichever
\* identifier they were given.
C4_SameReference ==
    \A r1, r2 \in Returns :
        r1.file = r2.file /\ r1.phase # "executing" /\ r2.phase # "executing"
            => r1.val = r2.val

C4_Witness ==
    \E r1, r2 \in log :
        /\ r1.file = r2.file
        /\ r1.id # r2.id
        /\ r1.phase = "fresh"
        /\ r2.phase = "loaded"
        /\ r1.val = r2.val

C6_ExportsReassigned ==
    \A e \in ends :
        e.exports # e.default /\ e.moduleExports = e.default =>
            /\ ~e.throws
            /\ e.val = e.exports
            /\ modules[moduleCache[e.file]].exports = e.exports
            /\ \E r \in FreshReturns(e.file) : r.val = e.exports

C6_Witness ==
    \E e \in ends : e.exports # e.default /\ e.moduleExports = e.default

\* C7: when a body ends with module.exports reassigned and `exports` still
\* the default container, reconciliation does not throw and require returns
\* the value assigned to module.exports.
C7_ModuleExportsReassigned ==
    \A e \in ends :
        e.exports = e.default /\ e.moduleExports # e.default =>
            /\ ~e.throws
            /\ e.val = e.moduleExports
            /\ modules[moduleCache[e.file]].exports = e.moduleExports
            /\ \E r \in FreshReturns(e.file) : r.val = e.moduleExports

C7_Witness ==
    \E e \in ends : e.exports = e.default /\ e.moduleExports # e.default

\* C8: when a body ends with `exports` and module.exports reassigned to two
\* different values, reconciliation throws and the require call that ran the
\* body returns no value.
C8_ConflictThrows ==
    \A e \in ends :
        /\ e.exports # e.default
        /\ e.moduleExports # e.default
        /\ e.exports # e.moduleExports
        => e.throws /\ FreshReturns(e.file) = {}

C8_Witness ==
    /\ ret.kind = "conflict"
    /\ \E e \in ends :
        /\ e.exports # e.default
        /\ e.moduleExports # e.default
        /\ e.exports # e.moduleExports

\* C9: when a body that reassigned neither binding ends, reconciliation does
\* not throw and leaves module.exports the default container, and require
\* returns that container, which holds every property the body added through
\* `exports` and through module.exports.
C9_InPlace ==
    \A e \in ends :
        e.added \cap Reassigned = {} =>
            /\ ~e.throws
            /\ e.val = e.moduleExports
            /\ e.val = e.default
            /\ e.added \subseteq e.props
            /\ \E r \in FreshReturns(e.file) :
                    r.val = e.default /\ e.added \subseteq r.props

C9_Witness ==
    \E e \in ends :
        /\ e.exports = e.default
        /\ e.moduleExports = e.default
        /\ e.added = {"e", "m"}

\* C10: a require call throws the not-found error exactly when the search
\* through the candidates yields no file at the time of the call, also when
\* the same identifier has failed from the same directory before, and the
\* error names the identifier of the call.
C10_NotFoundNotMemoized ==
    /\ \A r \in log : r.phase = "notfound" <=> r.probe = Undefined
    /\ ret.kind = "notfound" =>
            \E r \in log : r.phase = "notfound" /\ r.id = ret.id

\* require('c') has failed and, the file created, has then returned a value
C10_Witness ==
    /\ ret.kind = "ok"
    /\ ret.id = <<"c">>
    /\ \E r \in log :
        r.phase = "notfound" /\ r.id = <<"c">> /\ r.from = modules[Main].id

\* C11: a require call fails with the load error, which is not the not-found
\* error, exactly when its identifier resolves to a file that has no module
\* record and whose text is read empty; the failed call leaves no record of
\* the file in the module cache, and the file has a record only after a
\* later call has read it again and found text.
C11_LoadFailure ==
    /\ \A r \in log :
            r.phase = "loadfail"
                <=> r.file # Undefined /\ ~r.cached /\ r.read = "empty"
    /\ \A r \in log :
            r.phase = "loadfail" /\ r.file \in DOMAIN moduleCache =>
                /\ reads[r.file] >= 2
                /\ \E r2 \in log :
                        /\ r2.file = r.file
                        /\ r2.phase = "started"
                        /\ r2.read # "empty"
    /\ ret.kind = "loadfail" =>
            \E r \in log :
                /\ r.phase = "loadfail"
                /\ r.id = ret.id
                /\ r.file \notin DOMAIN moduleCache

\* require('e') has failed to load e.js and, its text written, has loaded it
C11_Witness ==
    /\ ret.kind = "ok"
    /\ ret.id = <<"e">>
    /\ FileE \in DOMAIN moduleCache
    /\ reads[FileE] = 2
    /\ \E r \in log : r.phase = "loadfail" /\ r.file = FileE

\* the require calls of the history, without the entries written at a return
Calls == { r \in log : r.phase # "fresh" }

\* C12: the `paths` of the require function of every module is the array
\* the top-level require.paths was initialised with, in every state and so
\* after every attempt to assign or to redefine it, and every executing body
\* has such a require function.
C12_OnePathsArray ==
    /\ \A m \in DOMAIN bindings : bindings[m].value = PathsArray
    /\ bindings[Main].value = PathsArray
    /\ \A i \in 1..Len(stack) : stack[i].mod \in DOMAIN bindings

\* an attempt has thrown while a module held a require function of its own
C12_Witness ==
    /\ ret.kind = "typeerror"
    /\ Cardinality(DOMAIN bindings) >= 2
    /\ Len(heap) > Len(modules) + 1

\* an identifier that is neither absolute nor relative
IsTopLevelId(moduleId) ==
    moduleId # <<>> /\ moduleId[1] # "/" /\ ~IsRelativeId(moduleId)

\* C13: a require of a top-level identifier that a directory appended to
\* require.paths yields a file for is resolved, whichever module calls it,
\* also one whose body was executing when the directory was appended: a
\* call that fails as not found has no such directory in require.paths.
C13_AppendSeen ==
    \A r \in Calls :
        (r.phase = "notfound" \/ r.file = Undefined) /\ IsTopLevelId(r.id) =>
            \A i \in 1..Len(r.paths) :
                ProbeCandidate(r.id, r.paths[i]) # Undefined
                    => i <= Len(initJsPaths)

\* require('d') has failed; then a.js has required b.js, require.paths has
\* grown while the body of b.js ran, and a.js has required 'd' with success
C13_Witness ==
    \E n, s, f, r \in log :
        /\ n.phase = "notfound" /\ n.id = <<"d">>
        /\ s.from = FileA /\ s.phase = "started" /\ s.file = FileB
        /\ s.paths = initJsPaths
        /\ f.file = FileB /\ f.phase = "fresh" /\ Len(f.paths) > Len(s.paths)
        /\ r.from = FileA /\ r.id = <<"d">> /\ r.phase = "started"

\* C14: the file a require call resolves its identifier to is the file the
\* earliest candidate that yields one yields at the time of the call.
C14_EarliestCandidateWins ==
    \A r \in Calls : r.file # Undefined => r.file = r.probe

\* the shapes of C15: the candidates of identifier `id` required from `dir`
ShapeCandidates(id, dir, searchPaths) ==
    IF id # <<>> /\ id[1] = "/" THEN << <<>> >>
    ELSE IF IsRelativeId(id) /\ dir # <<".">> THEN <<dir>>
    ELSE IF IsTopLevelId(id) /\ dir # <<".">> THEN searchPaths \o <<dir>>
    ELSE searchPaths

\* C15: the candidates of a require call are: the identifier alone when it
\* starts with "/" (it then resolves to itself or to itself with an
\* extension); the requesting directory alone for a relative identifier
\* from a directory other than "."; require.paths followed by the
\* requesting directory for a top-level identifier from such a directory;
\* require.paths in every other case.
C15_CandidatesByShape ==
    \A r \in Calls :
        /\ r.cands = ShapeCandidates(r.id, dirname(r.from), r.paths)
        /\ r.id[1] = "/" /\ r.file # Undefined =>
                r.file \in {r.id, r.id \o <<".", "js">>, r.id \o <<".", "json">>}

\* an absolute identifier, a relative one from a module and from the main
\* script and a top-level one from a module have been required
C15_Witness ==
    \E r1, r2, r3, r4 \in log :
        /\ r1.id[1] = "/" /\ r1.file = FileD /\ r1.phase = "started"
        /\ IsRelativeId(r2.id) /\ r2.from = FileD /\ r2.cands = <<DirS>>
        /\ IsTopLevelId(r3.id) /\ r3.from = FileD /\ r3.cands = <<DirM, DirS>>
        /\ IsRelativeId(r4.id) /\ r4.from = <<>> /\ r4.cands = <<DirM>>
        /\ r4.file = FileD

\* C16: a require call resolves its identifier from the directory of the
\* module its require function is bound to, whichever body is the innermost
\* one, and from "." when it is the top-level function: a relative
\* identifier is looked for in that directory only, and is not found when
\* it is not there.
C16_RequestingDirectory ==
    \A r \in Calls :
        /\ r.from # <<>> /\ IsRelativeId(r.id) =>
                r.file = ProbeCandidate(r.id, dirname(r.from))
        /\ r.from # <<>> /\ IsTopLevelId(r.id) =>
                r.file = ProbeFrom(r.id, r.paths \o <<dirname(r.from)>>, 1)
        /\ r.from = <<>> /\ r.id[1] # "/" =>
                r.file = ProbeFrom(r.id, r.paths, 1)

\* the body of a.js has called the require of d.js with './a', which has
\* failed as not found although /m is a search path and /m/a.js is a file
C16_Witness ==
    \E r \in log :
        /\ r.id = <<".", "/", "a">>
        /\ r.from = FileD
        /\ modules[r.inner].id = FileA
        /\ r.phase = "notfound"
        /\ stat(FileA) = FileType.RegularFile
        /\ \E i \in 1..Len(r.paths) : r.paths[i] = DirM

IsFile(filepath) == stat(filepath) = FileType.RegularFile

\* the first of `filepath`.js and `filepath`.json that is a regular file
Inferred(filepath) ==
    IF IsFile(filepath \o <<".", "js">>) THEN filepath \o <<".", "js">>
    ELSE IF IsFile(filepath \o <<".", "json">>) THEN filepath \o <<".", "json">>
    ELSE Undefined

\* C17: when /m/foo is no regular file, require('foo') resolves to foo.js if
\* that is a regular file, else to foo.json if that is one, else to nothing;
\* extension inference returns the path itself only to a caller that allows
\* the exact hit.
C17_ExtensionOrder ==
    /\ \A r \in log :
            r.id = <<"foo">> /\ ~IsFile(FileFoo) => r.file = Inferred(FileFoo)
    /\ resolveExtension(FileFoo, FALSE) = Inferred(FileFoo)
    /\ resolveExtension(FileEntry, FALSE) = Inferred(FileEntry)
    /\ IsFile(FileFoo) => resolveExtension(FileFoo, TRUE) = FileFoo
    /\ IsFile(FileEntry) => resolveExtension(FileEntry, TRUE) = FileEntry

\* require('foo') has resolved to foo.js with foo.json present and no foo
C17_Witness ==
    /\ IsFile(FileFooJson)
    /\ FileFoo \notin DOMAIN fs
    /\ \E r \in log : r.id = <<"foo">> /\ r.file = FileFooJs

\* the descriptor of /m/pkg is JSON whose `main` is 'lib/entry'
HasMain ==
    FilePkgJson \in DOMAIN fs /\ fs[FilePkgJson] = JsonEntry(MainEntry)

\* C18: when the descriptor of /m/pkg has the `main` 'lib/entry', naming a
\* file of the package, require('pkg') resolves to /m/pkg/lib/entry if that
\* is a regular file, else to lib/entry.js, else to lib/entry.json.
C18_MainResolved ==
    \A r \in log :
        /\ r.id = <<"pkg">>
        /\ HasMain
        /\ IsFile(FileEntry) \/ Inferred(FileEntry) # Undefined
        => r.file = IF IsFile(FileEntry) THEN FileEntry ELSE Inferred(FileEntry)

\* /m/pkg has no descriptor the resolver can use: none, one that is no JSON,
\* an empty one, a directory of that name
NoDescriptor ==
    \/ FilePkgJson \notin DOMAIN fs
    \/ fs[FilePkgJson] \in {MalformedEntry, EmptyEntry, DirEntry}

\* C19: when /m/pkg has no descriptor or one that does not parse,
\* require('pkg') resolves to index.js, else to index.json, and fails only
\* as not found, when neither is there.
C19_DescriptorNeverFatal ==
    \A r \in log :
        r.id = <<"pkg">> /\ NoDescriptor =>
            /\ r.file = Inferred(DirP \o <<"/", "index">>)
            /\ r.phase \in {"started", "fresh", "loaded", "executing", "notfound"}
            /\ r.phase = "notfound" <=> r.file = Undefined

\* require('pkg') has resolved to index.js past a descriptor that is no JSON
C19_Witness ==
    /\ FilePkgJson \in DOMAIN fs
    /\ fs[FilePkgJson] = MalformedEntry
    /\ IsFile(FileEntryJs)
    /\ \E r \in log :
            r.id = <<"pkg">> /\ r.file = FileIndexJs /\ r.phase = "fresh"

\* the directory `path`/node_modules/`moduleId`
NodeModulesOf(path, moduleId) ==
    normalizePath(joinPath(<<path, <<"node_modules">>, moduleId>>))

\* `filepath` lies in the directory `directory`
Under(filepath, directory) ==
    /\ filepath # Undefined
    /\ Len(filepath) > Len(directory) + 1
    /\ SubSeq(filepath, 1, Len(directory) + 1) = directory \o <<"/">>

NoSlash(moduleId) == \A i \in 1..Len(moduleId) : moduleId[i] # "/"

\* C20: a require call resolves to a file of the package directory
\* P/node_modules/<id> of a candidate P only when the identifier holds no
\* '/' and the basename of P is not 'node_modules'; and when these two hold
\* for the first candidate P, P/<id> is neither a regular file nor a
\* directory and P/node_modules/<id> is a directory with an index file, the
\* call resolves to that index file, whether or not P/<id>.js exists.
C20_NodeModules ==
    \A r \in log :
        /\ \A i \in 1..Len(r.cands) :
                Under(r.file, NodeModulesOf(r.cands[i], r.id)) =>
                    NoSlash(r.id) /\ basename(r.cands[i]) # <<"node_modules">>
        /\ /\ NoSlash(r.id)
           /\ basename(r.cands[1]) # <<"node_modules">>
           /\ stat(joinPath(<<r.cands[1], r.id>>)) = FileType.Unknown
           /\ Inferred(NodeModulesOf(r.cands[1], r.id) \o <<"/", "index">>)
                    # Undefined
           => r.file = Inferred(NodeModulesOf(r.cands[1], r.id)
                                    \o <<"/", "index">>)

\* require('nm') has resolved to the package under /m/node_modules although
\* /m/nm.js is a file, and require('z') from /m/node_modules/q.js has failed
\* although /m/node_modules/node_modules/z is a package
C20_Witness ==
    /\ IsFile(FileNmJs)
    /\ IsFile(FileZIndex)
    /\ \E r \in log : r.id = <<"nm">> /\ r.file = FileNmIndex
    /\ \E r \in log :
            r.id = <<"z">> /\ r.from = FileQ /\ r.phase = "notfound"

\* C21: a require call that resolves to a file with the extension '.json'
\* and text never starts a body, returns the parsed value when the text is
\* JSON and throws the parse error when it is not; a call that resolves to
\* any other file with text has its body executed as script.
C21_JsonByExtension ==
    \A r \in log :
        r.file # Undefined /\ r.read # "empty" =>
            IF extname(r.file) = <<".", "json">>
            THEN /\ Count(execs, r.file) = 0
                 /\ r.read = "json" =>
                        r.phase \in {"fresh", "loaded"} /\ r.props = {"json"}
                 /\ r.read # "json" => r.phase = "jsonerr"
            ELSE /\ Count(execs, r.file) = 1
                 /\ r.phase \in {"started", "fresh", "loaded", "executing"}

\* C26: no require call returns a value for a file whose load has failed (in
\* the conflict of the two exports, in an exception of its body, in a JSON
\* parse error): every call that returns the exports of a record that is
\* not executing follows a load of that file that has returned a value.
C26_NoPartialResult ==
    \A r \in log : r.phase = "loaded" => FreshReturns(r.file) # {}

\* C22: in a host that defines neither JS_PATH nor CommonJS no require call
\* returns a value.
C22_NoValueReturned ==
    /\ Returns = {}
    /\ ret.kind # "ok"

\* C23: the `main` of the require function of every module, and of the
\* top-level one, is in every state the module record created at
\* initialisation, which is the top-level `module` and whose id is the empty
\* string; the property is neither writable nor configurable, so no attempt
\* to assign or redefine it changes it; every module whose body has been
\* started has such a require function.
C23_MainFixed ==
    /\ \A m \in DOMAIN mains :
            /\ mains[m].value = Main
            /\ ~mains[m].writable
            /\ ~mains[m].configurable
    /\ modules[Main].id = <<>>
    /\ modules[Main].default = 1
    /\ \A m \in 2..Len(modules) :
            Count(execs, modules[m].id) > 0 => m \in DOMAIN mains

\* an attempt of the main script to replace require.main by the record of a
\* module it has loaded has thrown, two modules holding a require function
\* of their own
C23_Witness ==
    /\ ret.kind = "typeerror"
    /\ stack = <<>>
    /\ top >= 2
    /\ Cardinality(DOMAIN mains) >= 3
    /\ \E r \in log : r.phase = "fresh" /\ r.from # <<>>

\* C27 as stated: reconciliation throws exactly when, at the end of the body,
\* module.exports is neither the default container nor the final `exports`.
C27_Original ==
    \A e \in ends :
        e.throws <=> e.moduleExports # e.default /\ e.moduleExports # e.exports

\* C27 amended: reconciliation throws exactly when, at the end of the body,
\* module.exports is not the default container, `exports` is not the
\* default container either and the two are different values; a body ends
\* in the conflict error only when reconciliation has thrown.
C27_ConflictExactly ==
    /\ \A e \in ends :
            e.throws <=> /\ e.moduleExports # e.default
                         /\ e.exports # e.default
                         /\ e.moduleExports # e.exports
    /\ ret.kind = "conflict" => \E e \in ends : e.throws

\* two bodies have ended without an error: one with module.exports alone
\* reassigned, which is then different from `exports`, and one with both
\* bindings assigned the same value
C27_Witness ==
    /\ ret.kind = "ok"
    /\ \E e \in ends :
            /\ e.moduleExports # e.default
            /\ e.exports = e.default
            /\ ~e.throws
    /\ \E e \in ends :
            /\ e.moduleExports # e.default
            /\ e.exports = e.moduleExports
            /\ ~e.throws

\* the segments POSIX lexical normalization leaves of the segments `parts`,
\* `out` being those left so far
RECURSIVE PosixFrom(_, _, _, _)
PosixFrom(parts, i, absolute, out) ==
    IF i > Len(parts) THEN out
    ELSE IF parts[i] = <<>> \/ parts[i] = <<".">>
         THEN PosixFrom(parts, i + 1, absolute, out)
    ELSE IF parts[i] # <<".", ".">>
         THEN PosixFrom(parts, i + 1, absolute, Append(out, parts[i]))
    ELSE IF Len(out) > 0 /\ Last(out) # <<".", ".">>
         THEN PosixFrom(parts, i + 1, absolute, Front(out))
    ELSE IF absolute THEN PosixFrom(parts, i + 1, absolute, out)
    ELSE PosixFrom(parts, i + 1, absolute, Append(out, parts[i]))

IsAbsolute(filepath) == filepath # <<>> /\ filepath[1] = "/"

PosixSegments(filepath) ==
    PosixFrom(Split(filepath, "/"), 1, IsAbsolute(filepath), <<>>)

\* the segments of a path that are not empty
RealSegments(filepath) ==
    SelectSeq(Split(filepath, "/"), LAMBDA seg : seg # <<>>)

\* C25: normalizePath returns the POSIX lexical normalization of its
\* argument: an absolute path stays absolute and a relative one relative,
\* '.' segments and empty segments are dropped, '..' removes the real
\* segment before it, is dropped at the root and is kept at the front of a
\* relative path; "/a/../../b" gives "/b", "a/../../b" gives "../b" and
\* "a/./b/../c" gives "a/c".
C25_PosixNormalization ==
    \A r \in log :
        /\ IsAbsolute(r.normalized) <=> IsAbsolute(r.filepath)
        /\ RealSegments(r.normalized) = PosixSegments(r.filepath)
        /\ r.filepath = <<"/", "a", "/", ".", ".", "/", ".", ".", "/", "b">>
                => r.normalized = <<"/", "b">>
        /\ r.filepath = <<"a", "/", ".", ".", "/", ".", ".", "/", "b">>
                => r.normalized = <<".", ".", "/", "b">>
        /\ r.filepath = <<"a", "/", ".", "/", "b", "/", ".", ".", "/", "c">>
                => r.normalized = <<"a", "/", "c">>

\* the index file of the directory `directory`, which has no descriptor
IndexOf(directory) ==
    IF stat(directory) = FileType.Directory
    THEN Inferred(directory \o <<"/", "index">>) ELSE Undefined

\* what the candidate `path` yields for the identifier `id`, by the order of
\* C28: the file itself, the package, the node_modules package, the file
\* with an extension
FirstMatch(path, id) ==
    IF IsFile(path \o <<"/">> \o id) THEN path \o <<"/">> \o id
    ELSE IF IndexOf(path \o <<"/">> \o id) # Undefined
         THEN IndexOf(path \o <<"/">> \o id)
    ELSE IF IndexOf(path \o <<"/", "node_modules", "/">> \o id) # Undefined
         THEN IndexOf(path \o <<"/", "node_modules", "/">> \o id)
    ELSE Inferred(path \o <<"/">> \o id)

RECURSIVE FirstCandidate(_, _, _)
FirstCandidate(candidates, id, i) ==
    IF i > Len(candidates) THEN Undefined
    ELSE IF FirstMatch(candidates[i], id) # Undefined
         THEN FirstMatch(candidates[i], id)
    ELSE FirstCandidate(candidates, id, i + 1)

\* C28: require('foo') resolves to what the first candidate that yields
\* anything yields, and a candidate yields the first of: the joined path as
\* a regular file, the package of the joined path as a directory, the
\* package under node_modules, the joined path with an extension.
C28_StepOrder ==
    \A r \in log :
        r.id = <<"foo">> => r.file = FirstCandidate(r.cands, r.id, 1)

\* require('foo') has resolved to the index file of the directory /m/foo
\* although /m/foo.js and the package /m/node_modules/foo exist
C28_Witness ==
    /\ IsFile(FileFooJs)
    /\ IsFile(FileNmFooIndex)
    /\ \E r \in log :
            r.id = <<"foo">> /\ r.file = FileFooIndex /\ Len(r.cands) = 2

\* C29: when /m/pkg/lib is a directory that holds index.js or index.json and
\* the `main` of the descriptor of /m/pkg names it, resolvePackage(/m/pkg)
\* returns that index file, and require('pkg') resolves to it.
C29_MainDirectory ==
    \A r \in log :
        r.id = <<"pkg">> /\ IndexOf(DirPLib) # Undefined =>
            /\ resolvePackage(DirP) = IndexOf(DirPLib)
            /\ r.file = IndexOf(DirPLib)

\* C30: when the `main` of the descriptor of /m/pkg names no regular file of
\* the package (not itself, not with '.js', not with '.json'),
\* resolvePackage(/m/pkg) returns nothing, whether or not /m/pkg/index.js
\* exists, and require('pkg') resolves to no file of the package or of any
\* other directory.
C30_NoIndexFallback ==
    \A r \in log :
        r.id = <<"pkg">> /\ ~IsFile(DirPLib) /\ Inferred(DirPLib) = Undefined =>
            /\ resolvePackage(DirP) = Undefined
            /\ r.file = Undefined

\* C24: the record the module cache holds for a path has that path as its
\* id, and require of the id of a module that has a record resolves, from
\* the directory of every module, to that id: every such call returns the
\* exports of that record without a second record being created.
C24_RequireOwnId ==
    /\ \A f \in DOMAIN moduleCache : modules[moduleCache[f]].id = f
    /\ \A f \in DOMAIN moduleCache : \A m \in 1..Len(modules) :
            resolveFile(f, dirname(modules[m].id)) = f
    /\ \A r \in Calls :
            r.cached /\ r.id = r.file =>
                /\ r.phase \in {"loaded", "executing"}
                /\ r.phase = "loaded" =>
                        r.val = modules[moduleCache[r.id]].exports

\* C33: normalizePath keeps the root and the trailing slash: the result of a
\* path that starts with "/" starts with "/", also when its '..' and '.'
\* segments leave no real segment ("/a/.."), and the result of a path that
\* ends with "/" ends with "/".
C33_RootAndSlashKept ==
    \A r \in log :
        /\ IsAbsolute(r.filepath) => IsAbsolute(r.normalized)
        /\ r.filepath # <<>> /\ Last(r.filepath) = "/" =>
                r.normalized # <<>> /\ Last(r.normalized) = "/"

\* `s` without one "/" at its end, and without one at its front
DropSlashAfter(s) == IF s # <<>> /\ Last(s) = "/" THEN Front(s) ELSE s

DropSlashBefore(s) == IF s # <<>> /\ s[1] = "/" THEN Tail(s) ELSE s

\* the pieces glued to `joined`, one "/" at each junction
RECURSIVE Glued(_, _)
Glued(joined, pieces) ==
    IF Len(pieces) = 0 THEN joined
    ELSE Glued(DropSlashAfter(joined) \o <<"/">> \o DropSlashBefore(Head(pieces)),
               Tail(pieces))

\* the non-empty pieces joined, nothing put in front of the first
GluedAll(pieces) ==
    IF Len(pieces) = 0 THEN <<>> ELSE Glued(Head(pieces), Tail(pieces))

\* C34: joinPath returns its non-empty pieces in order with one "/" at each
\* junction, whether or not the pieces carry a slash there, and nothing in
\* front of the first piece: joinPath('a', 'b') is 'a/b'.
C34_JoinPath ==
    \A r \in log :
        /\ r.joined = GluedAll(SelectSeq(r.pieces, LAMBDA p : p # <<>>))
        /\ r.pieces = << <<"a">>, <<"b">> >> => r.joined = <<"a", "/", "b">>

\* `s` without the "/"s at its end
RECURSIVE Trimmed(_)
Trimmed(s) ==
    IF s # <<>> /\ Last(s) = "/" THEN Trimmed(Front(s)) ELSE s

\* index of the last "/" of s, 0 when there is none
RECURSIVE LastSlash(_, _)
LastSlash(s, i) ==
    IF i = 0 THEN 0 ELSE IF s[i] = "/" THEN i ELSE LastSlash(s, i - 1)

\* what is in front of the "/" at index i of the path `trimmed`
InFrontOf(trimmed, i, absolute) ==
    IF i >= 2 THEN SubSeq(trimmed, 1, i - 1)
    ELSE IF absolute THEN <<"/">> ELSE <<".">>

\* the parent directory of a path by its text: what is in front of the last
\* "/" that a segment follows
ParentOf(filepath) ==
    IF filepath = <<>> THEN <<".">>
    ELSE InFrontOf(Trimmed(filepath),
                   LastSlash(Trimmed(filepath), Len(Trimmed(filepath))),
                   filepath[1] = "/")

\* C35: dirname drops the empty segments at the end of the path and then
\* one non-empty segment: it returns what is in front of the last "/" that
\* a segment follows, "/" when nothing is left of an absolute path, "."
\* when nothing is left of a relative one and for the empty string; a "/"
\* appended to the path does not change the result, and dirname('a/b/') is
\* 'a'.
C35_Dirname ==
    \A r \in log :
        /\ r.dirname = ParentOf(r.filepath)
        /\ r.filepath # <<>> => dirname(r.filepath \o <<"/">>) = r.dirname
        /\ r.filepath = <<>> => r.dirname = <<".">>
        /\ r.filepath = <<"a", "/", "b", "/">> => r.dirname = <<"a">>

\* dirname('a/b/') has returned 'a'
C35_Witness ==
    \E r \in log :
        r.filepath = <<"a", "/", "b", "/">> /\ r.dirname = <<"a">>

\* C36: the record the module cache holds for a path has that path as its
\* id, and no step removes an entry of either cache or changes it: a path
\* keeps its record, the record keeps its id, and an identifier and
\* requesting directory keep the path they were resolved to.
C36_CachesOnlyGrow ==
    /\ [](\A f \in DOMAIN moduleCache : modules[moduleCache[f]].id = f)
    /\ [][/\ \A f \in DOMAIN moduleCache :
                /\ f \in DOMAIN moduleCache'
                /\ moduleCache'[f] = moduleCache[f]
                /\ modules'[moduleCache[f]].id = f
          /\ \A k \in DOMAIN resolveCache :
                /\ k \in DOMAIN resolveCache'
                /\ resolveCache'[k] = resolveCache[k]]_vars

\* two paths have records and a call has returned the path its key was
\* resolved to earlier, although the search would now yield another file
C36_Witness ==
    /\ Cardinality(DOMAIN moduleCache) >= 2
    /\ Cardinality(DOMAIN resolveCache) >= 2
    /\ \E r \in Calls :
            /\ r.file # Undefined
            /\ r.probe # r.file
            /\ r.file = resolveCache[CacheKey(r.id, dirname(r.from))]

\* C37: the resolution cache holds the results of successful searches only:
\* every entry names a regular file; a step that adds an entry is a call
\* with that identifier from that directory which resolves to the path
\* entered, a regular file at that time; and a call that fails as not
\* found adds no entry.
C37_SuccessesOnly ==
    /\ [](\A k \in DOMAIN resolveCache :
            resolveCache[k] # Undefined /\ IsFile(resolveCache[k]))
    /\ [][/\ \A k \in DOMAIN resolveCache' \ DOMAIN resolveCache :
                /\ IsFile(resolveCache'[k])
                /\ \E r \in log' \ log :
                        /\ CacheKey(r.id, dirname(r.from)) = k
                        /\ r.file = resolveCache'[k]
                        /\ r.phase # "notfound"
          /\ ret'.kind = "notfound" /\ (top' # top \/ steps' # steps) =>
                resolveCache' = resolveCache]_vars

\* require('foo') has been entered for a file found by its extension, and
\* the call of its body has failed as not found and has left that one entry
C37_Witness ==
    /\ ret.kind = "notfound"
    /\ DOMAIN resolveCache = {CacheKey(<<"foo">>, <<".">>)}
    /\ resolveCache[CacheKey(<<"foo">>, <<".">>)] = Inferred(FileFoo)
    /\ \E r \in log : r.phase = "notfound" /\ r.from = Inferred(FileFoo)

\* the identifier, required through the require of `parent`, is in the
\* resolution cache and the path it was resolved to has a module record
IsHit(moduleId, parent) ==
    /\ CacheKey(moduleId, dirname(modules[parent].id)) \in DOMAIN resolveCache
    /\ resolveCache[CacheKey(moduleId, dirname(modules[parent].id))]
            \in DOMAIN moduleCache

\* the exports of the record of the path the identifier was resolved to
HitExports(moduleId, parent) ==
    modules[moduleCache[
        resolveCache[CacheKey(moduleId, dirname(modules[parent].id))]]].exports

\* C38: a require call whose identifier and requesting directory are in the
\* resolution cache and whose resolved path has a module record returns the
\* exports of that record, whatever a search would yield now, reads no
\* file, starts no body and changes neither cache nor any record; a call
\* that fails as not found changes neither cache.
C38_HitChangesNothing ==
    [][/\ \A moduleId \in PathsMainIds :
            IsHit(moduleId, Main) /\ MainRequire(moduleId) =>
                /\ UNCHANGED <<globals, fs, paths, moduleCache, resolveCache, heap,
                               modules, stack, ends, reads, execs>>
                /\ ret'.kind = "ok"
                /\ ret'.val = HitExports(moduleId, Main)
       /\ \A moduleId \in PathsBodyIds :
            /\ stack # <<>>
            /\ IsHit(moduleId, Frame.mod)
            /\ BodyRequire(moduleId)
            => UNCHANGED <<globals, fs, paths, moduleCache, resolveCache, heap,
                           modules, stack, ends, reads, execs, ret>>
       /\ ret'.kind = "notfound" /\ (top' # top \/ steps' # steps) =>
            UNCHANGED <<moduleCache, resolveCache>>]_vars

\* a call has returned the exports of the record of the path its key was
\* resolved to, a file read and started once, although the search would now
\* yield another file; another call has failed as not found
C38_Witness ==
    /\ \E r \in Calls :
            /\ r.phase \in {"loaded", "executing"}
            /\ r.cached
            /\ r.probe # r.file
            /\ r.file = resolveCache[CacheKey(r.id, dirname(r.from))]
            /\ r.val = modules[moduleCache[r.file]].exports
            /\ reads[r.file] = 1
            /\ execs[r.file] = 1
    /\ \E r \in log : r.phase = "notfound"

\* C39: every path a require call resolves its identifier to, and so every
\* key of the module cache and every id of a module record, is canonical:
\* normalizePath returns it unchanged and its last segment has an extension.
C39_Canonical ==
    /\ \A r \in log :
            r.file # Undefined =>
                normalizePath(r.file) = r.file /\ extname(r.file) # <<>>
    /\ \A f \in DOMAIN moduleCache :
            normalizePath(f) = f /\ extname(f) # <<>>

\* the probe of `filepath` yields no output although an entry is there
NoOutput(filepath) ==
    filepath \in DOMAIN fs /\ fs[filepath] = UnknownEntry

\* C32: a probe without output is no error and counts as a path that does
\* not exist: require('foo') resolves to what the first candidate yields
\* whose steps, taken in order, reach a path the probe classifies as a
\* regular file, fails as not found exactly when no step of any candidate
\* does, and fails in no other way.
C32_UnknownIsAbsent ==
    /\ \A r \in log :
            r.id = <<"foo">> =>
                /\ r.file = FirstCandidate(r.cands, r.id, 1)
                /\ r.phase = "notfound" <=>
                        FirstCandidate(r.cands, r.id, 1) = Undefined
                /\ r.phase \in {"notfound", "started", "fresh", "loaded",
                                "executing"}
    /\ ret.kind \in {"none", "pending", "ok", "notfound"}

\* the probes of /m/foo, /m/node_modules/foo and /m/foo.js yield no output:
\* require('foo') has failed as not found from the main script and has
\* resolved to /m/s/foo.js from the body of /m/s/d.js
C32_Witness ==
    /\ NoOutput(FileFoo) /\ NoOutput(DirNmFoo) /\ NoOutput(FileFooJs)
    /\ \E r \in log :
            r.id = <<"foo">> /\ r.from = <<>> /\ r.phase = "notfound"
    /\ \E r \in log :
            r.id = <<"foo">> /\ r.from = FileD /\ r.file = FileSFooJs

\* the entries require.paths is configured with as C31 states them: those of
\* JS_PATH when it is defined, the directory of CommonJS otherwise
StatedEntries(g) ==
    IF g.JS_PATH # Undefined THEN Split(g.JS_PATH, ":")
    ELSE <<dirname(g.CommonJS)>>

\* the same, an empty JS_PATH counting as one that is not defined
ConfiguredEntries(g) ==
    IF g.JS_PATH # Undefined /\ g.JS_PATH # <<>> THEN Split(g.JS_PATH, ":")
    ELSE <<dirname(g.CommonJS)>>

\* the entries whose normalized path the probe classifies as a directory
KeptAt(entries) ==
    { j \in 1..Len(entries) :
        stat(normalizePath(entries[j])) = FileType.Directory }

\* the first of them that normalizes to `path`
FirstAt(entries, path) ==
    CHOOSE j \in KeptAt(entries) :
        /\ normalizePath(entries[j]) = path
        /\ \A k \in KeptAt(entries) :
                normalizePath(entries[k]) = path => j <= k

\* `list` holds the normalized directories among `entries`, each once, in
\* the order in which they first occur
IsInitialPaths(list, entries) ==
    /\ \A i \in 1..Len(list) :
            \E j \in KeptAt(entries) : list[i] = normalizePath(entries[j])
    /\ \A j \in KeptAt(entries) :
            \E i \in 1..Len(list) : list[i] = normalizePath(entries[j])
    /\ \A i, k \in 1..Len(list) :
            i < k => /\ list[i] # list[k]
                     /\ FirstAt(entries, list[i]) < FirstAt(entries, list[k])

\* require.paths is the initial list of `entries` followed by directories
\* the main script has appended
InitialThenAppended(entries) ==
    \E n \in 0..Len(paths) :
        /\ IsInitialPaths(SubSeq(paths, 1, n), entries)
        /\ \A i \in (n + 1)..Len(paths) : paths[i] \in InitPushDirs

\* C31 as stated: require.paths starts with the normalized directories among
\* the colon-separated entries of JS_PATH, or among the one entry
\* dirname(CommonJS) when JS_PATH is not defined, each once and in the
\* order of the configuration; what follows has been appended.
C31_Original ==
    InitialThenAppended(StatedEntries(globals))

\* C31 amended: the initial require.paths holds the normalized directories
\* among the colon-separated entries of JS_PATH, or among the one entry
\* dirname(CommonJS) when JS_PATH is not defined or is the empty string,
\* each once and in the order of the configuration; a later change of
\* require.paths is the append of the directory pushed, whether or not it
\* exists or is in the list already.
C31_InitialPaths ==
    /\ IsInitialPaths(paths, ConfiguredEntries(globals))
    /\ [](InitialThenAppended(ConfiguredEntries(globals)))
    /\ [][paths' # paths =>
            \E dir \in InitPushDirs : paths' = Append(paths, dir)]_vars

\* JS_PATH names /m/s twice, in two spellings: require.paths has started
\* with the one entry /m/s, require('d') has found /m/s/d.js, and a path
\* that does not exist has been appended
C31_Witness ==
    /\ globals.JS_PATH = <<"/", "m", "/", "s", ":", "/", "m", "/", ".", "/", "s">>
    /\ paths = << DirS, <<"/", "x">> >>
    /\ \E r \in log : r.id = <<"d">> /\ r.file = FileD /\ r.paths = <<DirS>>

====
